---------------------------- MODULE Spec2Model ----------------------------
(***************************************************************************)
(* Region detection and document packaging of the OCR extractor:           *)
(*   src/src/utils/imageProcessor.ts  (processImageContent,                *)
(*       generateWordWithImages, createCroppedImage,                       *)
(*       intelligentCropDetection, the per-type detectors and estimators,  *)
(*       createPlaceholderImage)                                           *)
(*   src/unnamed/part_005             (ExtractedContentCard.downloadAsWord)*)
(*                                                                         *)
(* Three specifications share the variables below:                         *)
(*   SpecCrop    - intelligentCropDetection on one image and descriptor    *)
(*   SpecPackage - generateWordWithImages on one text and asset list       *)
(*   Spec        - downloadAsWord driving processImageContent, the crop    *)
(*                 and placeholder paths, their timers, and the packaging  *)
(***************************************************************************)
EXTENDS Integers, Sequences, FiniteSets, TLC

(***************************************************************************)
(* Bounds of the model.                                                    *)
(***************************************************************************)
\* Images are imgWidth x imgHeight pixels with both sides in 1..MaxDim, and
\* one image of StrokeDim x StrokeDim pixels.
MaxDim == 6

\* The smallest side on which a one-pixel stroke passes the handwriting
\* detector's filter  rect.width < canvas.width * 0.1.
StrokeDim == 11

\* generateWordWithImages is given up to MaxImages assets and a text of up to
\* MaxSegments segments (a character, a newline, or a whole marker).
MaxImages == 2
MaxSegments == 3

ImageSizes == ((1..MaxDim) \X (1..MaxDim)) \cup {<<StrokeDim, StrokeDim>>}

(***************************************************************************)
(* Numbers.  The code computes with JavaScript numbers; every fraction it  *)
(* uses (0.1 .. 0.7, 0.15, and one halving) is a multiple of 1/40, so all  *)
(* lengths are kept exactly as integers counting 1/Unit of a pixel.        *)
(***************************************************************************)
Unit == 8 * 5

Max(a, b) == IF a >= b THEN a ELSE b
Min(a, b) == IF a <= b THEN a ELSE b

\* v * (n/d), for the code's  v * 0.6  and  (a - b) / 2
Frac(v, n, d) == (v * n) \div d

ElementTypes == {"chart", "icon", "picture", "table", "handwritten", "unknown"}
PositionFlags == {"top", "bottom", "left", "right", "center"}
SizeHints == {"small", "large", "medium", "none"}

Rect(x, y, w, h) == [x |-> x, y |-> y, width |-> w, height |-> h]
NoRect == Rect(0, 0, 0, 0)

(***************************************************************************)
(* Heuristic region estimators: one per element type, each a function of   *)
(* the image size (W, H in units) and the position flags.                  *)
(***************************************************************************)
detectChartRegion(W, H, position) ==
  LET width == Frac(W, 6, 10)
      height == Frac(H, 4, 10)
      x == IF "center" \in position THEN Frac(W - width, 1, 2)
           ELSE IF "right" \in position THEN W - width
           ELSE IF "left" \in position THEN 0
           ELSE Frac(W - width, 1, 2)
      y == IF "bottom" \in position THEN H - height
           ELSE IF "top" \in position THEN 0
           ELSE Frac(H - height, 1, 2)
  IN  Rect(x, y, width, height)

detectIconRegion(W, H, position) ==
  LET size == Frac(Min(W, H), 15, 100)
      width == size
      height == size
      x == IF "center" \in position THEN Frac(W - width, 1, 2)
           ELSE IF "right" \in position THEN W - width
           ELSE IF "left" \in position THEN 0
           ELSE Frac(W, 1, 10)
      y == IF "bottom" \in position THEN H - height
           ELSE IF "top" \in position THEN 0
           ELSE Frac(H, 1, 10)
  IN  Rect(x, y, width, height)

detectPictureRegion(W, H, position) ==
  LET width == Frac(W, 5, 10)
      height == Frac(H, 5, 10)
      x == IF "center" \in position THEN Frac(W - width, 1, 2)
           ELSE IF "right" \in position THEN W - width
           ELSE IF "left" \in position THEN 0
           ELSE Frac(W - width, 1, 2)
      y == IF "bottom" \in position THEN H - height
           ELSE IF "top" \in position THEN 0
           ELSE Frac(H - height, 1, 2)
  IN  Rect(x, y, width, height)

detectTableRegion(W, H, position) ==
  LET width == Frac(W, 7, 10)
      height == Frac(H, 3, 10)
      x == IF "center" \in position THEN Frac(W - width, 1, 2)
           ELSE IF "right" \in position THEN W - width
           ELSE IF "left" \in position THEN 0
           ELSE Frac(W - width, 1, 2)
      y == IF "bottom" \in position THEN H - height
           ELSE IF "top" \in position THEN 0
           ELSE Frac(H - height, 1, 2)
  IN  Rect(x, y, width, height)

detectHandwrittenRegionWide(W, H, position) ==
  LET width == Frac(W, 4, 10)
      height == Frac(H, 2, 10)
      x == IF "center" \in position THEN Frac(W - width, 1, 2)
           ELSE IF "right" \in position THEN W - width
           ELSE IF "left" \in position THEN 0
           ELSE Frac(W, 7, 10)
      y == IF "bottom" \in position THEN H - height
           ELSE IF "top" \in position THEN 0
           ELSE Frac(H, 7, 10)
  IN  Rect(x, y, width, height)

detectHandwrittenRegion(W, H, position) ==
  LET width == Frac(W, 4, 10)
      height == Frac(H, 2, 10)
      x == IF "center" \in position THEN Frac(W - width, 1, 2)
           ELSE IF "right" \in position THEN W - width
           ELSE IF "left" \in position THEN 0
           ELSE Frac(W, 6, 10)
      y == IF "bottom" \in position THEN H - height
           ELSE IF "top" \in position THEN 0
           ELSE Frac(H, 7, 10)
  IN  Rect(x, y, width, height)

detectByPosition(W, H, position) ==
  LET width == Frac(W, 5, 10)
      height == Frac(H, 5, 10)
      x == IF "center" \in position THEN Frac(W - width, 1, 2)
           ELSE IF "right" \in position THEN W - width
           ELSE IF "left" \in position THEN 0
           ELSE Frac(W - width, 1, 2)
      y == IF "bottom" \in position THEN H - height
           ELSE IF "top" \in position THEN 0
           ELSE Frac(H - height, 1, 2)
  IN  Rect(x, y, width, height)

\* The estimator each structural detector falls back to.
HeuristicRegion(elementType, W, H, position) ==
  CASE elementType = "chart" -> detectChartRegion(W, H, position)
    [] elementType = "icon" -> detectIconRegion(W, H, position)
    [] elementType = "picture" -> detectPictureRegion(W, H, position)
    [] elementType = "table" -> detectTableRegion(W, H, position)
    [] elementType = "handwritten" -> detectHandwrittenRegion(W, H, position)
    [] OTHER -> detectByPosition(W, H, position)

(***************************************************************************)
(* Structural detectors (detect*RegionWithCV).  The vision pipeline is an  *)
(* external collaborator: it yields bounding boxes with integer pixel      *)
(* coordinates inside the canvas; the code filters them by size, picks     *)
(* one, and repositions it by the position flags.                          *)
(***************************************************************************)
\* cv.boundingRect of a contour of a W x H pixel canvas, in units
BoundingRects(pw, ph) ==
  { Rect(x * Unit, y * Unit, w * Unit, h * Unit) :
      <<x, y, w, h>> \in
        { q \in (0..(pw - 1)) \X (0..(ph - 1)) \X (1..pw) \X (1..ph) :
            q[1] + q[3] <= pw /\ q[2] + q[4] <= ph } }

\* the size filter of each detector's candidate loop
IsCandidate(elementType, rect, W, H) ==
  CASE elementType = "chart" ->
         rect.width * 10 > W * 3 /\ rect.height * 10 > H * 2
    [] elementType = "icon" ->
         rect.width * 10 < W * 2 /\ rect.height * 10 < H * 2
    [] elementType = "picture" ->
         rect.width * 10 > W * 2 /\ rect.height * 10 > H * 2
    [] elementType = "table" ->
         rect.width * 10 > W * 3 /\ rect.height * 10 > H * 2
    [] elementType = "handwritten" ->
         \* a cluster exists once one stroke box passes the 10% filter; its
         \* bounding box grows with every merge
         Unit * 10 < W /\ Unit * 10 < H
    [] OTHER -> FALSE

\* "Adjust position based on description", the same in all five detectors
AdjustPosition(best, W, H, position) ==
  LET x == IF "center" \in position
             THEN Max(0, Min(best.x, W - best.width))
           ELSE IF "right" \in position THEN W - best.width
           ELSE IF "left" \in position THEN 0
           ELSE best.x
      yc == IF "center" \in position
              THEN Max(0, Min(best.y, H - best.height))
            ELSE best.y
      y == IF "bottom" \in position THEN H - best.height
           ELSE IF "top" \in position THEN 0
           ELSE yc
  IN  Rect(x, y, best.width, best.height)

(***************************************************************************)
(* The final clamp of intelligentCropDetection.                            *)
(***************************************************************************)
ClampRectRightEdge(r, W, H) ==
  LET x == Max(0, Min(r.x, W - r.width))
      y == Max(0, Min(r.y, H - r.height))
  IN  Rect(x, y, Min(W, r.width + x), Min(H, r.height + y))

ClampRect(r, W, H) ==
  LET x == Max(0, Min(r.x, W - r.width))
      y == Max(0, Min(r.y, H - r.height))
  IN  Rect(x, y, Min(r.width, W - x), Min(r.height, H - y))

(***************************************************************************)
(* Text.  A string is a sequence of tokens; a token is a character, or one *)
(* of the fixed literals of the tag grammar.                               *)
(***************************************************************************)
CropOpen == "[IMAGE_CROP_NEEDED: "
PlaceholderOpen == "[IMAGE_PLACEHOLDER:"
Close == "]"
Newline == "\n"
Space == " "
ImgPrefix == "img_"

\* decimal numerals, for `img_${i + 1}`, `rId${relId}` and parseInt
Numerals == <<"1", "2", "3", "4", "5", "6", "7", "8", "9">>
NumeralOf(n) == <<Numerals[n]>>
NaN == 0 - 1
parseInt(str) ==
  IF Len(str) >= 1 /\ \E n \in DOMAIN Numerals : Numerals[n] = str[1]
    THEN CHOOSE n \in DOMAIN Numerals : Numerals[n] = str[1]
    ELSE NaN

\* first index at or after `from` where s holds token t, or 0
RECURSIVE IndexFrom(_, _, _)
IndexFrom(s, t, from) ==
  IF from > Len(s) THEN 0
  ELSE IF s[from] = t THEN from
  ELSE IndexFrom(s, t, from + 1)

\* String.prototype.split('\n')
RECURSIVE Split(_, _)
Split(s, sep) ==
  LET i == IndexFrom(s, sep, 1)
  IN  IF i = 0 THEN <<s>>
      ELSE <<SubSeq(s, 1, i - 1)>> \o Split(SubSeq(s, i + 1, Len(s)), sep)

\* paragraph.trim() === ''
IsBlank(s) == \A i \in DOMAIN s : s[i] \in {Space, Newline}

\* String.prototype.replace(token, '') : the first occurrence only
RemoveFirst(s, t) ==
  LET i == IndexFrom(s, t, 1)
  IN  IF i = 0 THEN s ELSE SubSeq(s, 1, i - 1) \o SubSeq(s, i + 1, Len(s))

\* String.prototype.replace(/c/g, rep)
RECURSIVE ReplaceAllToken(_, _, _)
ReplaceAllToken(s, c, rep) ==
  IF s = <<>> THEN <<>>
  ELSE (IF Head(s) = c THEN rep ELSE <<Head(s)>>) \o ReplaceAllToken(Tail(s), c, rep)

\* the three replaces with the ampersand escaped last
EscapeXmlAmpLast(s) ==
  ReplaceAllToken(
    ReplaceAllToken(
      ReplaceAllToken(s, "<", <<"&", "l", "t", ";">>),
      ">", <<"&", "g", "t", ";">>),
    "&", <<"&", "a", "m", "p", ";">>)

\* the three chained replaces of a text paragraph
EscapeXml(s) ==
  ReplaceAllToken(
    ReplaceAllToken(
      ReplaceAllToken(s, "&", <<"&", "a", "m", "p", ";">>),
      "<", <<"&", "l", "t", ";">>),
    ">", <<"&", "g", "t", ";">>)

\* The leftmost match of  open (.*?) \]  in a string: [from, to] are the
\* positions of the opening literal and of the closing bracket; `.` does not
\* match a newline.  from = 0 when there is no match at or after `start`.
RECURSIVE MatchFrom(_, _, _)
MatchFrom(s, open, start) ==
  LET i == IndexFrom(s, open, start)
      j == IF i = 0 THEN 0 ELSE IndexFrom(s, Close, i + 1)
      nl == IF i = 0 THEN 0 ELSE IndexFrom(s, Newline, i + 1)
  IN  IF i = 0 THEN [from |-> 0, to |-> 0]
      ELSE IF j # 0 /\ (nl = 0 \/ nl > j) THEN [from |-> i, to |-> j]
      ELSE MatchFrom(s, open, i + 1)

Group1(s, m) == SubSeq(s, m.from + 1, m.to - 1)
Group0(s, m) == SubSeq(s, m.from, m.to)

(***************************************************************************)
(* generateWordWithImages: the package is the set of part names of the zip *)
(* and the structured content of its three generated XML parts.            *)
(***************************************************************************)
\* a part name: a sequence of path segments, each a sequence of tokens
Path1(a) == << <<a>> >>
Path2(a, b) == << <<a>>, <<b>> >>
MediaFile(n) == <<"image">> \o n \o <<".png">>

ImageId(n) == <<ImgPrefix>> \o NumeralOf(n)
Asset(id, blob, description) == [id |-> id, blob |-> blob, description |-> description]

Element(kind, num, text) == [kind |-> kind, num |-> num, text |-> text]

\* one paragraph of createDocumentXML
ParagraphXml(paragraph) ==
  LET m == MatchFrom(paragraph, PlaceholderOpen, 1)
  IN  IF IsBlank(paragraph) THEN Element("empty", <<>>, <<>>)
      ELSE IF m.from # 0
        THEN \* docPr id, pic:cNvPr id and r:embed all use
             \* imageId.replace('img_', '')
             Element("drawing", RemoveFirst(Group1(paragraph, m), ImgPrefix), <<>>)
      ELSE Element("text", <<>>, EscapeXml(paragraph))

\* a body that leaves the blank lines out
RECURSIVE NonBlankParagraphs(_)
NonBlankParagraphs(content) ==
  LET i == IndexFrom(content, Newline, 1)
      first == IF i = 0 THEN content ELSE SubSeq(content, 1, i - 1)
      this == IF IsBlank(first) THEN <<>> ELSE <<ParagraphXml(first)>>
  IN  IF i = 0 THEN this
      ELSE this \o NonBlankParagraphs(SubSeq(content, i + 1, Len(content)))

createDocumentXML(content) ==
  LET paragraphs == Split(content, Newline)
  IN  [p \in DOMAIN paragraphs |-> ParagraphXml(paragraphs[p])]

Relationship(id, type, target) == [Id |-> id, Type |-> type, Target |-> target]

RelId(image) == parseInt(RemoveFirst(image.id, ImgPrefix))

\* `rId${relId}` and `media/image${relId}.png`
ImageRelationship(image) ==
  Relationship(<<"rId">> \o NumeralOf(RelId(image)), "image",
               << <<"media">>, MediaFile(NumeralOf(RelId(image))) >>)

\* _rels/.rels
PackageRels(images) ==
  <<Relationship(<<"rId", "1">>, "officeDocument", Path2("word", "document.xml"))>>
    \o [k \in DOMAIN images |-> ImageRelationship(images[k])]

\* a manifest that always declares the first image
DocumentRelsWithFirst(images) ==
  IF images = <<>> THEN <<ImageRelationship(Asset(ImageId(1), "crop", <<>>))>>
  ELSE [k \in DOMAIN images |-> ImageRelationship(images[k])]

\* word/_rels/document.xml.rels
DocumentRels(images) == [k \in DOMAIN images |-> ImageRelationship(images[k])]

\* the media part written next to word/ instead of inside it
MediaPartAtRoot(image) == Path1("media") \o <<MediaFile(NumeralOf(RelId(image)))>>

\* word/media/image${imageId}.png
MediaPart(image) == Path2("word", "media") \o <<MediaFile(NumeralOf(RelId(image)))>>

FixedParts ==
  { Path2("word", "document.xml"), Path1("[Content_Types].xml"), Path2("_rels", ".rels"),
    << <<"word">>, <<"_rels">>, <<"document.xml.rels">> >>, Path2("word", "styles.xml") }

VARIABLES
  cropDescription, \* the description of a tag, as the words it is made of
  imgWidth,      \* img.width in pixels
  imgHeight,     \* img.height in pixels
  parsedInfo,    \* the descriptor parseVisualElementDescription returned
  cropStage,     \* "idle", "parsed" (before the detection), "done"
  rawSource,     \* which code produced rawRect: "cv", "heuristic", "position"
  rawRect,       \* x, y, width, height before the final clamp (units)
  cropParams,    \* the rectangle intelligentCropDetection returns (units)
  failure,       \* history: what went wrong during the detection: "none",
                 \*   "not loaded", "timeout" (the readiness wait rejected),
                 \*   "setup" (a detector threw before its try block),
                 \*   "pipeline" (a detector threw inside its try block)
  \* generateWordWithImages
  genPc,         \* "idle", "import", "media", "done" (blob returned), "failed"
  genContent,    \* its argument `content`
  genImages,     \* its argument `images`
  mediaIdx,      \* the image whose arrayBuffer() is awaited
  zipFiles,      \* names of the parts added to the zip
  documentXml,   \* word/document.xml: the paragraph elements of the body
  relsXml,       \* _rels/.rels: its Relationship entries
  documentRelsXml, \* word/_rels/document.xml.rels: its Relationship entries
  \* downloadAsWord (ExtractedContentCard)
  content,       \* content.content, the extracted text
  hasOriginal,   \* content.originalFile is present and not empty
  dlPc,          \* "idle", "race", "packaging", "plain", "done"
  saved,         \* the artifacts handed to saveAs, in order
  \* processImageContent
  picPc,         \* "idle", "race", "fallback", "phrace", "resolved", "rejected"
  imageTags,     \* the matches: [text |-> match[0], description |-> match[1]]
  images,        \* the assets pushed so far
  processedContent, \* the rewritten text it returns
  cropPc,        \* per tag, the stage of its createCroppedImage call
  timers,        \* per setTimeout, the remaining delay in ms (Off: not armed)
  timedOut,      \* history: the tag whose race a deadline rejected last, and
                 \*          the stage its crop was in
  placeholderLate, \* history: time advanced while processImageContent awaited
                 \*          createPlaceholderImage
  \* two invocations of processImageContent side by side
  calls,         \* per invocation: its arguments, its locals and its position
  \* the clustering pass of detectHandwrittenRegionWithCV
  regions,       \* the bounding rectangles that passed the stroke filter, in order
  clusters,      \* the clusters built so far (bounding boxes)
  clusterOf,     \* history: per region handled, the index of the cluster it went to
  \* createPlaceholderImage wrapping and drawing the caption
  captionPc,     \* "idle", "wrapping", "drawn" or "empty" (no 2d context)
  wordsRead,     \* the number of words of the description taken so far
  currentWidth,  \* the measured width of currentLine, in pixels
  lineCount,     \* lines.length
  lineYs,        \* the y coordinate of each fillText call
  \* UnifiedExtractor.handleFileDrop and the state of AppContext
  drops,            \* per call of handleFileDrop: the file, its position, its outcome
                    \*   and (history) the payloads it passed to setProcessingState
  processingState,  \* AppState.processingState
  extractedContents,\* AppState.extractedContents
  dropError         \* the error state of UnifiedExtractor

cropVars == <<cropDescription, imgWidth, imgHeight, parsedInfo, cropStage, rawSource, rawRect,
              cropParams, failure>>
genVars == <<genPc, genContent, genImages, mediaIdx, zipFiles, documentXml, relsXml,
             documentRelsXml>>

dlVars == <<content, hasOriginal, dlPc, saved>>
picVars == <<picPc, imageTags, images, processedContent, cropPc, timers, timedOut, placeholderLate>>

clusterVars == <<regions, clusters, clusterOf>>

captionVars == <<captionPc, wordsRead, currentWidth, lineCount, lineYs>>

dropVars == <<drops, processingState, extractedContents, dropError>>

\* the state of the operations that run on their own
sideVars == <<clusterVars, captionVars, dropVars>>

vars == <<cropVars, genVars, dlVars, picVars, calls, sideVars>>

WU == imgWidth * Unit
HU == imgHeight * Unit

NoDescriptor == [elementType |-> "unknown", position |-> {}, sizeHint |-> "none"]

CropIdle ==
  /\ cropDescription = <<>>
  /\ imgWidth = 1
  /\ imgHeight = 1
  /\ parsedInfo = NoDescriptor
  /\ cropStage = "idle"
  /\ rawSource = "none"
  /\ rawRect = NoRect
  /\ cropParams = NoRect
  /\ failure = "none"

GenIdle ==
  /\ genPc = "idle"
  /\ genContent = <<>>
  /\ genImages = <<>>
  /\ mediaIdx = 0
  /\ zipFiles = {}
  /\ documentXml = <<>>
  /\ relsXml = <<>>
  /\ documentRelsXml = <<>>

Off == 0 - 1
NoTimeout == [tag |-> 0, stage |-> "none"]

\* downloadAsWord not invoked
DownloadIdle ==
  /\ content = <<>>
  /\ hasOriginal = FALSE
  /\ dlPc = "idle"
  /\ saved = <<>>
  /\ picPc = "idle"
  /\ imageTags = <<>>
  /\ images = <<>>
  /\ processedContent = <<>>
  /\ cropPc = <<>>
  /\ timers = <<>>
  /\ timedOut = NoTimeout
  /\ placeholderLate = FALSE

\* processImageContent not invoked side by side
NoCalls == calls = <<>>

\* no clustering pass under way
ClusterIdle ==
  /\ regions = <<>>
  /\ clusters = <<>>
  /\ clusterOf = <<>>

\* createPlaceholderImage not called on its own
CaptionIdle ==
  /\ captionPc = "idle"
  /\ wordsRead = 0
  /\ currentWidth = 0
  /\ lineCount = 0
  /\ lineYs = <<>>

\* initialState of AppContext, and useState<string | null>(null)
initialProcessingState ==
  [isProcessing |-> FALSE, progress |-> 0, currentStep |-> "", error |-> "null"]

\* no file dropped
DropIdle ==
  /\ drops = <<>>
  /\ processingState = initialProcessingState
  /\ extractedContents = <<>>
  /\ dropError = "null"

SideIdle == ClusterIdle /\ CaptionIdle /\ DropIdle

\* A timer that is due fires before any other event of that instant: the
\* events of the environment and the advance of time wait for it.
NoTimerDue == \A id \in DOMAIN timers : timers[id] # 0

\* The descriptor is drawn directly: the description it was parsed from is
\* left out.
InitCrop ==
  /\ GenIdle
  /\ DownloadIdle
  /\ NoCalls
  /\ SideIdle
  /\ cropDescription = <<>>
  /\ \E size \in ImageSizes : imgWidth = size[1] /\ imgHeight = size[2]
  /\ parsedInfo \in [elementType : ElementTypes, position : SUBSET PositionFlags,
                     sizeHint : {"none"}]
  /\ cropStage = "parsed"
  /\ rawSource = "none"
  /\ rawRect = NoRect
  /\ cropParams = NoRect
  /\ failure = "none"

Detected(source, r, thrown) ==
  /\ cropStage' = "done"
  /\ rawSource' = source
  /\ rawRect' = r
  /\ failure' = thrown
  /\ cropParams' = ClampRect(r, WU, HU)
  /\ UNCHANGED <<cropDescription, imgWidth, imgHeight, parsedInfo>>
  /\ UNCHANGED <<genVars, dlVars, picVars, calls, sideVars>>

\* The readiness wait rejects (library not loaded, or the 5 s deadline): the
\* catch of intelligentCropDetection estimates by position only.
DetectVisionFailed ==
  /\ cropStage = "parsed"
  /\ \E thrown \in {"not loaded", "timeout"} :
       Detected("position", detectByPosition(WU, HU, parsedInfo.position), thrown)

\* a detector whose early exception is not caught: the promise rejects
DetectorThrowEscapes ==
  /\ cropStage = "parsed"
  /\ parsedInfo.elementType # "unknown"
  /\ cropStage' = "rejected"
  /\ failure' = "setup"
  /\ UNCHANGED <<cropDescription, imgWidth, imgHeight, parsedInfo, rawSource, rawRect, cropParams>>
  /\ UNCHANGED <<genVars, dlVars, picVars, calls, sideVars>>

\* Vision ready, a typed detector throws before its own try block (the canvas
\* draw, the pixel read, the matrix creation): the same catch.
DetectorThrowsEarly ==
  /\ cropStage = "parsed"
  /\ parsedInfo.elementType # "unknown"
  /\ Detected("position", detectByPosition(WU, HU, parsedInfo.position), "setup")

\* Vision ready, element type unknown: the else branch.
DetectUnknownType ==
  /\ cropStage = "parsed"
  /\ parsedInfo.elementType = "unknown"
  /\ Detected("position", detectByPosition(WU, HU, parsedInfo.position), "none")

\* Vision ready, a typed detector finds no candidate, has no canvas context,
\* or throws inside its try block: the estimator of its own type.
DetectFallsBack ==
  /\ cropStage = "parsed"
  /\ parsedInfo.elementType # "unknown"
  /\ \E thrown \in {"none", "pipeline"} :
       Detected("heuristic",
                HeuristicRegion(parsedInfo.elementType, WU, HU, parsedInfo.position),
                thrown)

\* Vision ready, a typed detector selects the candidate `best`.
DetectFound ==
  /\ cropStage = "parsed"
  /\ parsedInfo.elementType # "unknown"
  /\ \E best \in BoundingRects(imgWidth, imgHeight) :
       /\ IsCandidate(parsedInfo.elementType, best, WU, HU)
       /\ Detected("cv", AdjustPosition(best, WU, HU, parsedInfo.position), "none")

NextCrop ==
  \/ DetectVisionFailed
  \/ DetectorThrowsEarly
  \/ DetectUnknownType
  \/ DetectFallsBack
  \/ DetectFound

SpecCrop == InitCrop /\ [][NextCrop]_vars

(***************************************************************************)
(* parseVisualElementDescription.  A description is the concatenation of   *)
(* its words; a keyword is included when it is one of them.                *)
(***************************************************************************)
MaxWords == 2

TypeWords == {"chart", "graph", "icon", "symbol", "picture", "photo", "table",
              "handwritten", "note"}
PositionWords == {"top", "bottom", "left", "right", "center", "middle"}
SizeWords == {"small", "large", "medium"}
Words == TypeWords \cup PositionWords \cup SizeWords \cup {"Chart", "PHOTO", "of"}

Descriptions == UNION {[1..n -> Words] : n \in 0..MaxWords}

\* String.prototype.toLowerCase, word by word
ToLowerCase(word) ==
  CASE word = "Chart" -> "chart"
    [] word = "PHOTO" -> "photo"
    [] OTHER -> word

\* a parser for which a small element is an icon
parseSmallAsIcon(text) ==
  LET lowerDescription == [i \in DOMAIN text |-> ToLowerCase(text[i])]
      includes(word) == \E i \in DOMAIN lowerDescription : lowerDescription[i] = word
      elementType ==
        IF includes("small") THEN "icon"
        ELSE IF includes("chart") \/ includes("graph") THEN "chart"
        ELSE IF includes("icon") \/ includes("symbol") THEN "icon"
        ELSE IF includes("picture") \/ includes("photo") THEN "picture"
        ELSE IF includes("table") THEN "table"
        ELSE IF includes("handwritten") \/ includes("note") THEN "handwritten"
        ELSE "unknown"
      position ==
        {flag \in {"top", "bottom", "left", "right"} : includes(flag)}
          \cup (IF includes("center") \/ includes("middle") THEN {"center"} ELSE {})
      sizeHint ==
        IF includes("small") THEN "small"
        ELSE IF includes("large") THEN "large"
        ELSE IF includes("medium") THEN "medium"
        ELSE "none"
  IN  [elementType |-> elementType, position |-> position, sizeHint |-> sizeHint]

parseVisualElementDescription(text) ==
  LET lowerDescription == [i \in DOMAIN text |-> ToLowerCase(text[i])]
      includes(word) == \E i \in DOMAIN lowerDescription : lowerDescription[i] = word
      elementType ==
        IF includes("chart") \/ includes("graph") THEN "chart"
        ELSE IF includes("icon") \/ includes("symbol") THEN "icon"
        ELSE IF includes("picture") \/ includes("photo") THEN "picture"
        ELSE IF includes("table") THEN "table"
        ELSE IF includes("handwritten") \/ includes("note") THEN "handwritten"
        ELSE "unknown"
      position ==
        {flag \in {"top", "bottom", "left", "right"} : includes(flag)}
          \cup (IF includes("center") \/ includes("middle") THEN {"center"} ELSE {})
      sizeHint ==
        IF includes("small") THEN "small"
        ELSE IF includes("large") THEN "large"
        ELSE IF includes("medium") THEN "medium"
        ELSE "none"
  IN  [elementType |-> elementType, position |-> position, sizeHint |-> sizeHint]

\* the images of the descriptions: one pixel, and three by two
DescribedSizes == {<<1, 1>>, <<3, 2>>}

InitDescribed ==
  /\ GenIdle
  /\ DownloadIdle
  /\ NoCalls
  /\ SideIdle
  /\ cropDescription \in Descriptions
  /\ \E size \in DescribedSizes : imgWidth = size[1] /\ imgHeight = size[2]
  /\ parsedInfo = NoDescriptor
  /\ cropStage = "idle"
  /\ rawSource = "none"
  /\ rawRect = NoRect
  /\ cropParams = NoRect
  /\ failure = "none"

\* line 365 of intelligentCropDetection
DescriptionParsed ==
  /\ cropStage = "idle"
  /\ parsedInfo' = parseVisualElementDescription(cropDescription)
  /\ cropStage' = "parsed"
  /\ UNCHANGED <<cropDescription, imgWidth, imgHeight, rawSource, rawRect, cropParams, failure>>
  /\ UNCHANGED <<genVars, dlVars, picVars, calls, sideVars>>

NextDescribed ==
  \/ DescriptionParsed
  \/ DetectVisionFailed
  \/ DetectorThrowsEarly
  \/ DetectUnknownType
  \/ DetectFallsBack
  \/ DetectFound

SpecDescribed == InitDescribed /\ [][NextDescribed]_vars

(***************************************************************************)
(* generateWordWithImages, step by step: the dynamic imports, then one     *)
(* arrayBuffer() per image, then zip.generate.                             *)
(***************************************************************************)
TextChars == {"a", Space, "&", "<", ">"}

Marker(n) == <<PlaceholderOpen>> \o ImageId(n) \o <<Close>>

PackageSegments ==
  {<<c>> : c \in TextChars} \cup {<<Newline>>} \cup {Marker(n) : n \in 1..MaxImages}

RECURSIVE Flatten(_)
Flatten(segs) == IF segs = <<>> THEN <<>> ELSE Head(segs) \o Flatten(Tail(segs))

TextsOf(segments, maxLen) ==
  {Flatten(segs) : segs \in UNION {[1..n -> segments] : n \in 0..maxLen}}

\* the asset list processImageContent builds for k tags
SequentialAssets(k) == [i \in 1..k |-> Asset(ImageId(i), "crop", <<>>)]

InitPackage ==
  /\ CropIdle
  /\ DownloadIdle
  /\ NoCalls
  /\ SideIdle
  /\ genPc = "import"
  /\ genContent \in TextsOf(PackageSegments, MaxSegments)
  /\ genImages \in {SequentialAssets(k) : k \in 0..MaxImages}
  /\ mediaIdx = 0
  /\ zipFiles = {}
  /\ documentXml = <<>>
  /\ relsXml = <<>>
  /\ documentRelsXml = <<>>

\* zip.generate and the Blob constructor end the call: the blob is returned,
\* or the exception rejects the promise.
\* downloadAsWord, awaiting it, then saves the .docx (line 62 of the card) or
\* catches and exports the text (lines 200-209).
GenFinish(ok) ==
  /\ genPc' = IF ok THEN "done" ELSE "failed"
  /\ IF dlPc = "packaging"
       THEN /\ dlPc' = "done"
            /\ saved' = Append(saved, IF ok THEN "docx" ELSE "txt")
       ELSE UNCHANGED <<dlPc, saved>>

\* The imports resolved: lines 116-250 run, up to the first arrayBuffer().
GenImported ==
  /\ genPc = "import"
  /\ NoTimerDue
  /\ documentXml' = createDocumentXML(genContent)
  /\ relsXml' = PackageRels(genImages)
  /\ documentRelsXml' = DocumentRels(genImages)
  /\ zipFiles' = FixedParts
  /\ IF genImages = <<>>
       THEN /\ \E ok \in BOOLEAN : GenFinish(ok)
            /\ UNCHANGED mediaIdx
       ELSE /\ genPc' = "media"
            /\ mediaIdx' = 1
            /\ UNCHANGED <<dlPc, saved>>
  /\ UNCHANGED <<genContent, genImages>>
  /\ UNCHANGED <<cropVars, calls, sideVars, content, hasOriginal, picVars>>

\* A dynamic import rejects.
GenImportFails ==
  /\ genPc = "import"
  /\ NoTimerDue
  /\ GenFinish(FALSE)
  /\ UNCHANGED <<genContent, genImages, mediaIdx, zipFiles, documentXml, relsXml,
                 documentRelsXml>>
  /\ UNCHANGED <<cropVars, calls, sideVars, content, hasOriginal, picVars>>

\* image.blob.arrayBuffer() resolved: the media part is added.
GenMediaAdded ==
  /\ genPc = "media"
  /\ NoTimerDue
  /\ zipFiles' = zipFiles \cup {MediaPart(genImages[mediaIdx])}
  /\ IF mediaIdx = Len(genImages)
       THEN /\ \E ok \in BOOLEAN : GenFinish(ok)
            /\ UNCHANGED mediaIdx
       ELSE /\ mediaIdx' = mediaIdx + 1
            /\ UNCHANGED <<genPc, dlPc, saved>>
  /\ UNCHANGED <<genContent, genImages, documentXml, relsXml, documentRelsXml>>
  /\ UNCHANGED <<cropVars, calls, sideVars, content, hasOriginal, picVars>>

NextPackage ==
  \/ GenImported
  \/ GenImportFails
  \/ GenMediaAdded

SpecPackage == InitPackage /\ [][NextPackage]_vars

(***************************************************************************)
(* processImageContent: the tags it matches and the text it rewrites.      *)
(***************************************************************************)
Includes(s, t) == IndexFrom(s, t, 1) # 0

\* first index at or after `from` where the substring sub starts in s, or 0
RECURSIVE IndexOfSeq(_, _, _)
IndexOfSeq(s, sub, from) ==
  IF from + Len(sub) - 1 > Len(s) THEN 0
  ELSE IF SubSeq(s, from, from + Len(sub) - 1) = sub THEN from
  ELSE IndexOfSeq(s, sub, from + 1)

\* a replace that rewrites the last occurrence
ReplaceLast(s, sub, rep) ==
  LET occurrences == {j \in 1..Len(s) : /\ j + Len(sub) - 1 <= Len(s)
                                        /\ SubSeq(s, j, j + Len(sub) - 1) = sub}
  IN  IF occurrences = {} THEN s
      ELSE LET i == CHOOSE j \in occurrences : \A h \in occurrences : h <= j
           IN  SubSeq(s, 1, i - 1) \o rep \o SubSeq(s, i + Len(sub), Len(s))

\* String.prototype.replace(string, string): the first occurrence only
ReplaceFirst(s, sub, rep) ==
  LET i == IndexOfSeq(s, sub, 1)
  IN  IF i = 0 THEN s
      ELSE SubSeq(s, 1, i - 1) \o rep \o SubSeq(s, i + Len(sub), Len(s))

\* [...content.matchAll(/\[IMAGE_CROP_NEEDED: (.*?)\]/g)]
RECURSIVE MatchAllFrom(_, _)
MatchAllFrom(s, start) ==
  LET m == MatchFrom(s, CropOpen, start)
  IN  IF m.from = 0 THEN <<>>
      ELSE <<[text |-> Group0(s, m), description |-> Group1(s, m)]>>
             \o MatchAllFrom(s, m.to + 1)

matchAll(s) == MatchAllFrom(s, 1)

\* a rewriting that looks for the description instead of the whole match
RECURSIVE ReplaceTagsByDescription(_, _, _)
ReplaceTagsByDescription(text, tags, i) ==
  IF i > Len(tags) THEN text
  ELSE ReplaceTagsByDescription(
         LET at == IndexOfSeq(text, tags[i].description, 1)
         IN  SubSeq(text, 1, at - 2) \o Marker(i)
               \o SubSeq(text, at + Len(tags[i].description) + 1, Len(text)),
         tags, i + 1)

\* the second loop of processImageContent, from its iteration i on
RECURSIVE ReplaceTags(_, _, _)
ReplaceTags(text, tags, i) ==
  IF i > Len(tags) THEN text
  ELSE ReplaceTags(ReplaceFirst(text, tags[i].text, Marker(i)), tags, i + 1)

(***************************************************************************)
(* The plain branch of downloadAsWord: processContent.                     *)
(***************************************************************************)
LineBreak == "<w:br/>"

\* String.prototype.split(separator string)
RECURSIVE SplitSeq(_, _)
SplitSeq(s, sep) ==
  LET i == IndexOfSeq(s, sep, 1)
  IN  IF i = 0 THEN <<s>>
      ELSE <<SubSeq(s, 1, i - 1)>> \o SplitSeq(SubSeq(s, i + Len(sep), Len(s)), sep)

RECURSIVE JoinLines(_)
JoinLines(lines) ==
  IF Len(lines) = 1 THEN lines[1]
  ELSE lines[1] \o <<LineBreak>> \o JoinLines(Tail(lines))

PlainParagraphXml(paragraph) ==
  LET lines == SelectSeq(Split(paragraph, Newline), LAMBDA l : ~IsBlank(l))
      xmlLines == [k \in DOMAIN lines |-> EscapeXml(lines[k])]
  IN  IF IsBlank(paragraph) \/ lines = <<>>
        THEN Element("empty", <<>>, <<>>)
        ELSE Element("text", <<>>, JoinLines(xmlLines))

processContent(text) ==
  LET paragraphs == SplitSeq(text, <<Newline, Newline>>)
  IN  [p \in DOMAIN paragraphs |-> PlainParagraphXml(paragraphs[p])]

(***************************************************************************)
(* Time.  Every setTimeout of the download path is a countdown in ms; time *)
(* advances by Quantum when no armed timer is due.                         *)
(***************************************************************************)
CropTimeout == 10000        \* createCroppedImage
RaceTimeout == 10000        \* processImageContent, source-image branch
PlaceholderTimeout == 5000  \* processImageContent, no-source-image branch
OpenCvTimeout == 5000       \* intelligentCropDetection
DownloadTimeout == 15000    \* downloadAsWord
Quantum == OpenCvTimeout

DownloadTimer == <<"download", 0>>
TimerIds(k) ==
  {DownloadTimer} \cup ({"crop", "race", "opencv", "placeholder"} \X (1..k))

\* an awaited Promise.race of processImageContent is pending for tag i
RacePending(i) == picPc = "race" /\ Len(images) + 1 = i
PlaceholderRacePending(i) == picPc = "phrace" /\ Len(images) + 1 = i

\* what the timed actions never change
Env == UNCHANGED <<cropVars, calls, sideVars, content, hasOriginal, placeholderLate>>

(***************************************************************************)
(* processImageContent continues after an await: with the assets imgs      *)
(* pushed, it starts the next iteration (createCroppedImage runs up to     *)
(* its FileReader, or the placeholder race is started), or it leaves the   *)
(* loop, rewrites the text and resolves; downloadAsWord, if its race is    *)
(* still pending (racing), then calls generateWordWithImages.              *)
(***************************************************************************)
Proceed(tags, imgs, cp, tm, racing) ==
  /\ images' = imgs
  /\ imageTags' = tags
  /\ timedOut' = NoTimeout
  /\ UNCHANGED saved
  /\ IF Len(imgs) < Len(tags)
       THEN LET i == Len(imgs) + 1
            IN  /\ IF hasOriginal
                     THEN \E ctx \in BOOLEAN :
                            /\ picPc' = "race"
                            /\ cropPc' = [cp EXCEPT ![i] = IF ctx THEN "decode"
                                                                  ELSE "placeholder"]
                            /\ timers' = [tm EXCEPT
                                 ![<<"crop", i>>] = IF ctx THEN CropTimeout ELSE Off,
                                 ![<<"race", i>>] = RaceTimeout]
                     ELSE /\ picPc' = "phrace"
                          /\ cropPc' = cp
                          /\ timers' = [tm EXCEPT
                               ![<<"placeholder", i>>] = PlaceholderTimeout]
                /\ dlPc' = IF racing THEN "race" ELSE dlPc
                /\ UNCHANGED <<processedContent, genVars>>
       ELSE LET rewritten == ReplaceTags(content, tags, 1)
            IN  /\ picPc' = "resolved"
                /\ cropPc' = cp
                /\ timers' = tm
                /\ processedContent' = rewritten
                /\ IF racing
                     THEN /\ dlPc' = "packaging"
                          /\ genPc' = "import"
                          /\ genContent' = rewritten
                          /\ genImages' = imgs
                          /\ UNCHANGED <<mediaIdx, zipFiles, documentXml, relsXml,
                                         documentRelsXml>>
                     ELSE UNCHANGED <<dlPc, genVars>>

\* the catch of the source-image branch: createPlaceholderImage is awaited
Caught(i, cp, tm, stage) ==
  /\ picPc' = "fallback"
  /\ cropPc' = cp
  /\ timers' = tm
  /\ timedOut' = [tag |-> i, stage |-> stage]
  /\ UNCHANGED <<imageTags, images, processedContent, dlPc, saved, genVars>>

\* a step of a crop that processImageContent does not observe
Unobserved(cp, tm) ==
  /\ cropPc' = cp
  /\ timers' = tm
  /\ UNCHANGED <<picPc, imageTags, images, processedContent, timedOut, dlPc, saved,
                 genVars>>

\* an asset put in front of the list
PushedInFront(i, blob) ==
  <<Asset(ImageId(i), blob, imageTags[i].description)>> \o images

Pushed(i, blob) == Append(images, Asset(ImageId(i), blob, imageTags[i].description))

\* The promise of createCroppedImage settles while its race is pending: with
\* a blob, which is pushed, or "rejected", which the catch handles.
CropSettles(i, outcome, cp, tm) ==
  IF outcome = "rejected"
    THEN Caught(i, cp, tm, "none")
    ELSE Proceed(imageTags, Pushed(i, outcome), cp, tm, dlPc = "race")

(***************************************************************************)
(* downloadAsWord                                                          *)
(***************************************************************************)
\* The click: processImageContent runs up to its first await and the 15 s
\* timer is armed, or, without a tag, the import of the zip library is awaited.
downloadAsWord ==
  /\ dlPc = "idle"
  /\ IF Includes(content, CropOpen)
       THEN Proceed(matchAll(content), <<>>, cropPc,
                    [timers EXCEPT ![DownloadTimer] = DownloadTimeout], TRUE)
       ELSE /\ dlPc' = "plain"
            /\ UNCHANGED <<saved, genVars, picVars>>
  /\ UNCHANGED <<cropVars, calls, sideVars, content, hasOriginal, placeholderLate>>

\* The plain branch after the import: the package is built and saved, or an
\* exception (the import rejecting, zip.generate throwing) is caught and the
\* text is exported.
DownloadPlainBuilt ==
  /\ NoTimerDue
  /\ dlPc = "plain"
  /\ documentXml' = processContent(content)
  /\ relsXml' = PackageRels(<<>>)
  /\ documentRelsXml' = <<>>
  /\ zipFiles' = FixedParts
  /\ \E ok \in BOOLEAN : saved' = Append(saved, IF ok THEN "docx" ELSE "txt")
  /\ dlPc' = "done"
  /\ UNCHANGED <<genPc, genContent, genImages, mediaIdx, picVars>>
  /\ UNCHANGED <<cropVars, calls, sideVars, content, hasOriginal>>

DownloadImportFails ==
  /\ NoTimerDue
  /\ dlPc = "plain"
  /\ saved' = Append(saved, "txt")
  /\ dlPc' = "done"
  /\ UNCHANGED <<genVars, picVars, cropVars, calls, sideVars, content, hasOriginal>>

\* a timer callback that exports the text whether or not the race is pending
DownloadTimeoutAlwaysExports ==
  /\ dlPc # "idle"
  /\ timers[DownloadTimer] = 0
  /\ timers' = [timers EXCEPT ![DownloadTimer] = Off]
  /\ dlPc' = "done"
  /\ saved' = Append(saved, "txt")
  /\ UNCHANGED <<picPc, imageTags, images, processedContent, cropPc, timedOut, genVars>>
  /\ Env

\* The 15 s timer of downloadAsWord fires: if the race is still pending the
\* catch exports the text.
DownloadTimeoutFires ==
  /\ dlPc # "idle"
  /\ timers[DownloadTimer] = 0
  /\ timers' = [timers EXCEPT ![DownloadTimer] = Off]
  /\ IF dlPc = "race"
       THEN /\ dlPc' = "done"
            /\ saved' = Append(saved, "txt")
       ELSE UNCHANGED <<dlPc, saved>>
  /\ UNCHANGED <<picPc, imageTags, images, processedContent, cropPc, timedOut, genVars>>
  /\ Env

(***************************************************************************)
(* createCroppedImage and intelligentCropDetection, per tag                *)
(***************************************************************************)
\* reader.onload then img.onload: intelligentCropDetection starts and waits for
\* the vision runtime, with its 5 s timer.
ImageDecoded(i) ==
  /\ NoTimerDue
  /\ RacePending(i)
  /\ cropPc[i] = "decode"
  /\ Unobserved([cropPc EXCEPT ![i] = "cvwait"],
                [timers EXCEPT ![<<"opencv", i>>] = OpenCvTimeout])
  /\ Env

\* reader.onerror or img.onerror: the timer is cleared, a placeholder is made.
ImageDecodeFails(i) ==
  /\ NoTimerDue
  /\ RacePending(i)
  /\ cropPc[i] = "decode"
  /\ Unobserved([cropPc EXCEPT ![i] = "placeholder"],
                [timers EXCEPT ![<<"crop", i>>] = Off])
  /\ Env

\* The crop rectangle is known: the canvas is drawn and toBlob is called, or a
\* canvas call throws and the catch of img.onload makes a placeholder.
Drawn(i, tm) ==
  \E drawn \in BOOLEAN :
    Unobserved([cropPc EXCEPT ![i] = IF drawn THEN "encoding" ELSE "placeholder"],
               IF drawn THEN tm ELSE [tm EXCEPT ![<<"crop", i>>] = Off])

\* cv.getBuildInformation is there: the detector of the element type is called.
OpenCvReady(i) ==
  /\ NoTimerDue
  /\ RacePending(i)
  /\ cropPc[i] = "cvwait"
  /\ Unobserved([cropPc EXCEPT ![i] = "detecting"], timers)
  /\ Env

\* cv is undefined: the readiness promise rejects, detectByPosition estimates.
OpenCvNotLoaded(i) ==
  /\ NoTimerDue
  /\ RacePending(i)
  /\ cropPc[i] = "cvwait"
  /\ Drawn(i, timers)
  /\ Env

\* the 5 s timer of intelligentCropDetection
OpenCvTimeoutFires(i) ==
  /\ timers[<<"opencv", i>>] = 0
  /\ LET tm == [timers EXCEPT ![<<"opencv", i>>] = Off]
     IN  IF cropPc[i] = "cvwait" /\ RacePending(i) THEN Drawn(i, tm)
         ELSE Unobserved(cropPc, tm)
  /\ Env

\* The detector returns a rectangle, or throws and detectByPosition estimates.
DetectorSettles(i) ==
  /\ NoTimerDue
  /\ RacePending(i)
  /\ cropPc[i] = "detecting"
  /\ Drawn(i, timers)
  /\ Env

\* the callback of canvas.toBlob in img.onload
CropEncoded(i) ==
  /\ NoTimerDue
  /\ RacePending(i)
  /\ cropPc[i] = "encoding"
  /\ \E blob \in {"crop", "empty"} :
       CropSettles(i, blob, [cropPc EXCEPT ![i] = "finished"],
                   [timers EXCEPT ![<<"crop", i>>] = Off])
  /\ Env

\* the placeholder createCroppedImage makes instead of a crop settles
CropPlaceholderSettles(i) ==
  /\ NoTimerDue
  /\ RacePending(i)
  /\ cropPc[i] = "placeholder"
  /\ \E outcome \in {"placeholder", "empty", "rejected"} :
       CropSettles(i, outcome, [cropPc EXCEPT ![i] = "finished"], timers)
  /\ Env

\* A crop whose race is settled (a deadline rejected it, or processImageContent
\* was abandoned) runs on: whatever its remaining steps do, they end by
\* settling a promise that is settled already or that nobody awaits.
AbandonedCropSettles(i) ==
  /\ NoTimerDue
  /\ cropPc[i] \in {"decode", "cvwait", "detecting", "encoding", "placeholder"}
  /\ ~RacePending(i)
  /\ Unobserved([cropPc EXCEPT ![i] = "finished"], timers)
  /\ Env

\* the 10 s timer of createCroppedImage rejects its promise
CropTimeoutFires(i) ==
  /\ timers[<<"crop", i>>] = 0
  /\ LET tm == [timers EXCEPT ![<<"crop", i>>] = Off]
     IN  IF RacePending(i) THEN Caught(i, cropPc, tm, cropPc[i])
         ELSE Unobserved(cropPc, tm)
  /\ Env

\* a race deadline whose rejection is caught whether or not the race is pending
RaceTimeoutAlwaysCaught(i) ==
  /\ timers[<<"race", i>>] = 0
  /\ timers[<<"crop", i>>] # 0
  /\ Caught(i, cropPc, [timers EXCEPT ![<<"race", i>>] = Off], cropPc[i])
  /\ Env

\* The 10 s timer of the race in processImageContent; armed after the timer of
\* createCroppedImage with the same delay, it fires after it.
RaceTimeoutFires(i) ==
  /\ timers[<<"race", i>>] = 0
  /\ timers[<<"crop", i>>] # 0
  /\ LET tm == [timers EXCEPT ![<<"race", i>>] = Off]
     IN  IF RacePending(i) THEN Caught(i, cropPc, tm, cropPc[i])
         ELSE Unobserved(cropPc, tm)
  /\ Env

(***************************************************************************)
(* processImageContent awaiting createPlaceholderImage                     *)
(***************************************************************************)
\* Line 46, in the catch of the source-image branch: the blob is pushed, or
\* the rejection leaves processImageContent, whose promise rejects; the catch
\* of downloadAsWord, if its race is pending, exports the text.
FallbackPlaceholderSettles ==
  /\ NoTimerDue
  /\ picPc = "fallback"
  /\ \E outcome \in {"placeholder", "empty", "rejected"} :
       IF outcome = "rejected"
         THEN /\ picPc' = "rejected"
              /\ IF dlPc = "race"
                   THEN /\ dlPc' = "done"
                        /\ saved' = Append(saved, "txt")
                   ELSE UNCHANGED <<dlPc, saved>>
              /\ UNCHANGED <<imageTags, images, processedContent, cropPc, timers,
                             timedOut, genVars>>
         ELSE Proceed(imageTags, Pushed(Len(images) + 1, outcome), cropPc, timers,
                      dlPc = "race")
  /\ Env

\* Lines 62-81, the no-source-image branch: the placeholder wins the race, or
\* it rejects and the catch pushes an empty blob.
PlaceholderSettles ==
  /\ NoTimerDue
  /\ picPc = "phrace"
  /\ \E outcome \in {"placeholder", "empty", "rejected"} :
       Proceed(imageTags,
               Pushed(Len(images) + 1, IF outcome = "rejected" THEN "empty" ELSE outcome),
               cropPc, timers, dlPc = "race")
  /\ Env

\* the 5 s timer of the no-source-image branch: the catch pushes an empty blob
PlaceholderTimeoutFires(i) ==
  /\ timers[<<"placeholder", i>>] = 0
  /\ LET tm == [timers EXCEPT ![<<"placeholder", i>>] = Off]
     IN  IF PlaceholderRacePending(i)
           THEN Proceed(imageTags, Pushed(i, "empty"), cropPc, tm, dlPc = "race")
           ELSE Unobserved(cropPc, tm)
  /\ Env

\* Time advances by Quantum: some timer is armed and none is due.
Tick ==
  /\ dlPc # "idle"
  /\ NoTimerDue
  /\ \E id \in DOMAIN timers : timers[id] > 0
  /\ timers' = [id \in DOMAIN timers |->
                  IF timers[id] > 0 THEN timers[id] - Quantum ELSE timers[id]]
  /\ placeholderLate' = (placeholderLate \/ picPc \in {"fallback", "phrace"})
  /\ UNCHANGED <<picPc, imageTags, images, processedContent, cropPc, timedOut>>
  /\ UNCHANGED <<cropVars, calls, sideVars, genVars, dlVars>>

(***************************************************************************)
(* The download of one extracted document                                  *)
(***************************************************************************)
Tag(description) == <<CropOpen>> \o description \o <<Close>>

\* the descriptions of k tags: all the same, or alternating
SameDescriptions(k) == [i \in 1..k |-> <<"a">>]
AlternatingDescriptions(k) == [i \in 1..k |-> IF i % 2 = 1 THEN <<"a">> ELSE <<"b">>]

\* sep stands before each tag and after the last one
RECURSIVE Tagged(_, _)
Tagged(descriptions, sep) ==
  IF descriptions = <<>> THEN sep
  ELSE sep \o Tag(Head(descriptions)) \o Tagged(Tail(descriptions), sep)

\* texts with k tags: adjacent on one line, one per line, separated by text,
\* and each after a stray opening literal
TaggedTexts(k) ==
  { Tagged(SameDescriptions(k), <<>>),
    Tagged(SameDescriptions(k), <<Newline>>),
    Tagged(AlternatingDescriptions(k), <<"a">>),
    Tagged(AlternatingDescriptions(k), <<CropOpen>>) }

\* a text paragraph, a blank line, one tag on its own line, a blank line and
\* a final text paragraph
ScenarioText ==
  <<"a", Newline, Newline>> \o Tag(<<"a">>) \o <<Newline, Newline, "b">>

\* The extracted texts: text without a tag, or up to MaxImages tags.
Contents ==
  TextsOf({<<"a">>, <<"&">>, <<Newline>>}, MaxSegments)
    \cup UNION {TaggedTexts(k) : k \in 0..MaxImages}
    \cup {ScenarioText}

Init ==
  /\ CropIdle
  /\ GenIdle
  /\ NoCalls
  /\ SideIdle
  /\ content \in Contents
  /\ hasOriginal \in BOOLEAN
  /\ dlPc = "idle"
  /\ saved = <<>>
  /\ picPc = "idle"
  /\ imageTags = <<>>
  /\ images = <<>>
  /\ processedContent = <<>>
  /\ cropPc = [i \in 1..Len(matchAll(content)) |-> "idle"]
  /\ timers = [id \in TimerIds(Len(matchAll(content))) |-> Off]
  /\ timedOut = NoTimeout
  /\ placeholderLate = FALSE

Next ==
  \/ downloadAsWord
  \/ DownloadPlainBuilt
  \/ DownloadImportFails
  \/ DownloadTimeoutFires
  \/ \E i \in DOMAIN cropPc : ImageDecoded(i)
  \/ \E i \in DOMAIN cropPc : ImageDecodeFails(i)
  \/ \E i \in DOMAIN cropPc : OpenCvReady(i)
  \/ \E i \in DOMAIN cropPc : OpenCvNotLoaded(i)
  \/ \E i \in DOMAIN cropPc : OpenCvTimeoutFires(i)
  \/ \E i \in DOMAIN cropPc : DetectorSettles(i)
  \/ \E i \in DOMAIN cropPc : CropEncoded(i)
  \/ \E i \in DOMAIN cropPc : CropPlaceholderSettles(i)
  \/ \E i \in DOMAIN cropPc : AbandonedCropSettles(i)
  \/ \E i \in DOMAIN cropPc : CropTimeoutFires(i)
  \/ \E i \in DOMAIN cropPc : RaceTimeoutFires(i)
  \/ \E i \in DOMAIN cropPc : PlaceholderTimeoutFires(i)
  \/ FallbackPlaceholderSettles
  \/ PlaceholderSettles
  \/ Tick
  \/ GenImported
  \/ GenImportFails
  \/ GenMediaAdded

Spec == Init /\ [][Next]_vars

InBounds(r, W, H) ==
  /\ 0 <= r.x
  /\ 0 <= r.y
  /\ r.x + r.width <= W
  /\ r.y + r.height <= H

\* C1: the rectangle intelligentCropDetection returns lies inside the image:
\* 0 <= x', 0 <= y', x' + w' <= imgW, y' + h' <= imgH, whichever detector or
\* estimator produced the raw rectangle.
C1_ClampInvariant ==
  cropStage = "done" => InBounds(cropParams, WU, HU)

\* C1 witness: a structural detector returned a repositioned rectangle that
\* does not start at the origin, and the clamp has run.
C1_Witness ==
  /\ cropStage = "done"
  /\ rawSource = "cv"
  /\ rawRect.x > 0
  /\ rawRect.y > 0

\* C8: every heuristic estimator returns, for every image size, element type
\* and combination of the five position flags, a rectangle that is inside the
\* image before the final clamp: 0 <= x, 0 <= y, x + width <= imgW,
\* y + height <= imgH.
C8_HeuristicTotality ==
  (cropStage = "done" /\ rawSource \in {"heuristic", "position"}) =>
    /\ InBounds(rawRect, WU, HU)
    /\ rawRect.width >= 0
    /\ rawRect.height >= 0
    /\ rawRect = IF rawSource = "position"
                   THEN detectByPosition(WU, HU, parsedInfo.position)
                   ELSE HeuristicRegion(parsedInfo.elementType, WU, HU,
                                        parsedInfo.position)

\* C8 witness: the handwriting estimator placed its default rectangle, which
\* ends exactly on the right edge of the image.
C8_Witness ==
  /\ cropStage = "done"
  /\ rawSource = "heuristic"
  /\ parsedInfo.elementType = "handwritten"
  /\ parsedInfo.position = {}
  /\ rawRect.x + rawRect.width = WU
  /\ rawRect.x > 0

(***************************************************************************)
(* Reading a built package back.                                           *)
(***************************************************************************)
\* the numeral N of an "rIdN" string, and of a part name image{N}.png
RIdNumeral(id) == SubSeq(id, 2, Len(id))
MediaNumeral(file) == SubSeq(file, 2, Len(file) - 1)

\* numerals of the r:embed attributes of the drawings of word/document.xml
DrawingNumerals == {documentXml[p].num : p \in {q \in DOMAIN documentXml : documentXml[q].kind = "drawing"}}
\* numerals of the image relationships declared in word/_rels/document.xml.rels
DeclaredNumerals == {RIdNumeral(documentRelsXml[k].Id) : k \in DOMAIN documentRelsXml}
\* N for which the part word/media/image{N}.png exists
MediaNumerals ==
  {MediaNumeral(f[3]) : f \in {g \in zipFiles : Len(g) = 3 /\ SubSeq(g, 1, 2) = Path2("word", "media")}}

\* a relationship Target, resolved against the folder of the part that owns
\* the manifest
Resolve(ownerFolder, target) == ownerFolder \o target

ImageTargets(rels) == {rels[k].Target : k \in {q \in DOMAIN rels : rels[q].Type = "image"}}

\* C3 (as claimed): in a built package the numerals referenced by drawings,
\* the numerals declared in the document relationships and the numerals of the
\* media parts are the same set.
C3_ReferentialIntegrity ==
  genPc = "done" =>
    /\ DrawingNumerals = DeclaredNumerals
    /\ DeclaredNumerals = MediaNumerals

\* C10 (as claimed): every image Target of _rels/.rels (resolved against the
\* package root) and of word/_rels/document.xml.rels (resolved against word/)
\* names a part of the package.
C10_TargetsExist ==
  genPc = "done" =>
    /\ \A t \in ImageTargets(relsXml) : Resolve(<<>>, t) \in zipFiles
    /\ \A t \in ImageTargets(documentRelsXml) : Resolve(Path1("word"), t) \in zipFiles


(***************************************************************************)
(* processImageContent and downloadAsWord                                  *)
(***************************************************************************)
\* the ids of the markers of a text, in left-to-right order
RECURSIVE MarkersFrom(_, _)
MarkersFrom(s, start) ==
  LET m == MatchFrom(s, PlaceholderOpen, start)
  IN  IF m.from = 0 THEN <<>>
      ELSE <<Group1(s, m)>> \o MarkersFrom(s, m.to + 1)

\* C2: when processImageContent resolves for a text with k tag occurrences
\* (also with identical descriptions), the text it returns holds exactly the
\* markers img_1 .. img_k in left-to-right order, and the asset list has
\* length k, its i-th element under id img_i with the description of the i-th
\* tag, in the source-image branch and in the no-source-image branch.
C2_TagAssetCorrespondence ==
  picPc = "resolved" =>
    LET tags == matchAll(content)
    IN  /\ MarkersFrom(processedContent, 1) = [i \in DOMAIN tags |-> ImageId(i)]
        /\ Len(images) = Len(tags)
        /\ \A i \in DOMAIN tags :
             /\ images[i].id = ImageId(i)
             /\ images[i].description = tags[i].description

\* C2 witness: the source-image branch resolved for two tags on one line with
\* the same description, the first replaced after its crop deadline.
C2_Witness ==
  /\ picPc = "resolved"
  /\ hasOriginal
  /\ content = Tag(<<"a">>) \o Tag(<<"a">>)
  /\ Len(images) = Len(matchAll(content))
  /\ images[1].blob = "placeholder"
  /\ images[Len(images)].blob = "crop"

\* C4 (as claimed): crops that time out or fail are replaced by placeholders
\* and never cost the package: when a text with tags ends in the text export
\* although a placeholder already stands in for a crop, then the packaging
\* failed, or processImageContent rejected, or time was spent waiting for a
\* placeholder; the crops alone never make downloadAsWord fall back.
C4_CropFailuresKeepDocx ==
  ( /\ dlPc = "done"
    /\ saved = <<"txt">>
    /\ \E i \in DOMAIN images : images[i].blob = "placeholder" )
  => (genPc = "failed" \/ picPc = "rejected" \/ placeholderLate)

\* C5 (as claimed): a rejection of createPlaceholderImage never makes
\* processImageContent reject, in either branch: the tag gets an asset and the
\* call resolves with all k assets.
C5_DegradedOutput ==
  /\ picPc # "rejected"
  /\ picPc = "resolved" => Len(images) = Len(imageTags)

\* the timers whose firing ends the pending await of processImageContent
DeadlinesOfAwait ==
  LET i == Len(images) + 1
  IN  IF picPc = "race" THEN {<<"crop", i>>, <<"race", i>>}
      ELSE IF picPc = "phrace" THEN {<<"placeholder", i>>}
      ELSE {}

\* C6 (as claimed): every await of processImageContent, on the crop path and
\* on the placeholder path, the fallback placeholder after a failed or timed
\* out crop included, has an armed deadline, so that the call settles whatever
\* the collaborators do.
C6_EveryAwaitHasDeadline ==
  picPc \in {"race", "phrace", "fallback"} =>
    \E id \in DeadlinesOfAwait : timers[id] >= 0

\* C7 (as claimed): once the crop deadline has fired for a tag whose detector
\* never resolved, no time passes before its asset is there: the next thing
\* processImageContent does is push a placeholder image under the tag's id;
\* it does not reject.
C7_TimeoutFallback ==
  [][ (picPc = "fallback" /\ timedOut.stage = "detecting") =>
        /\ ~Tick
        /\ picPc' # "rejected"
        /\ picPc' # "fallback" =>
             /\ Len(images') = timedOut.tag
             /\ images'[timedOut.tag].id = ImageId(timedOut.tag)
             /\ images'[timedOut.tag].blob = "placeholder" ]_vars

\* C9: downloadAsWord never saves two artifacts; when it has ended it has
\* saved exactly one, the .docx exactly when the package was built (for a text
\* with tags: processImageContent resolved before the 15 s deadline and
\* generateWordWithImages returned) and the text export otherwise; until then
\* what it awaits is still due: the deadline of its race is armed, or the
\* packaging is in progress.  A stale deadline and an abandoned
\* processImageContent that completes later change nothing.
C9_ExactlyOneArtifact ==
  /\ Len(saved) <= 1
  /\ (dlPc = "done") <=> (Len(saved) = 1)
  /\ genPc = "done" /\ dlPc # "idle" => saved = <<"docx">>
  /\ saved = <<"docx">> =>
       /\ FixedParts \subseteq zipFiles
       /\ Includes(content, CropOpen) => genPc = "done" /\ picPc = "resolved"
  /\ dlPc = "race" => timers[DownloadTimer] >= 0 /\ picPc \in {"race", "phrace", "fallback"}
  /\ dlPc = "packaging" => genPc \in {"import", "media"}

\* C9 witness: the 15 s deadline won, the text was exported, and the abandoned
\* processImageContent resolved afterwards.
C9_Witness ==
  /\ dlPc = "done"
  /\ saved = <<"txt">>
  /\ picPc = "resolved"
  /\ genPc = "idle"
  /\ timers[DownloadTimer] = Off

(***************************************************************************)
(* The run text of a text paragraph                                        *)
(***************************************************************************)
\* the entity the replaces write for one character of a line
EntityOf(c) ==
  CASE c = "&" -> <<"&", "a", "m", "p", ";">>
    [] c = "<" -> <<"&", "l", "t", ";">>
    [] c = ">" -> <<"&", "g", "t", ";">>
    [] OTHER -> <<c>>

\* a line with each character escaped exactly once
EscapedOnce(s) == Flatten([i \in DOMAIN s |-> EntityOf(s[i])])

\* what an XML reader makes of the run text: one pass, each entity decoded
RECURSIVE UnescapeXml(_)
UnescapeXml(s) ==
  IF s = <<>> THEN <<>>
  ELSE IF Len(s) >= 5 /\ SubSeq(s, 1, 5) = EntityOf("&")
    THEN <<"&">> \o UnescapeXml(SubSeq(s, 6, Len(s)))
  ELSE IF Len(s) >= 4 /\ SubSeq(s, 1, 4) = EntityOf("<")
    THEN <<"<">> \o UnescapeXml(SubSeq(s, 5, Len(s)))
  ELSE IF Len(s) >= 4 /\ SubSeq(s, 1, 4) = EntityOf(">")
    THEN <<">">> \o UnescapeXml(SubSeq(s, 5, Len(s)))
  ELSE <<Head(s)>> \o UnescapeXml(Tail(s))

\* C11: the run text of every text paragraph of word/document.xml is the
\* line with each '&', '<' and '>' replaced exactly once by its entity and no
\* other character altered, and decoding the entities gives the line back.
C11_XmlEscaping ==
  documentXml # <<>> =>
    LET paragraphs == Split(genContent, Newline)
    IN  /\ Len(documentXml) = Len(paragraphs)
        /\ \A p \in DOMAIN documentXml :
             documentXml[p].kind = "text" =>
               /\ documentXml[p].text = EscapedOnce(paragraphs[p])
               /\ UnescapeXml(documentXml[p].text) = paragraphs[p]

\* C11 witness: a text paragraph holding all three special characters, the
\* ampersand standing before the angle brackets, has been written.
C11_Witness ==
  /\ genContent = <<"&", "<", ">">>
  /\ documentXml # <<>>
  /\ documentXml[1].kind = "text"
  /\ documentXml[1].text = EntityOf("&") \o EntityOf("<") \o EntityOf(">")

(***************************************************************************)
(* The scenarios of a whole export                                         *)
(***************************************************************************)
\* the kinds of the non-blank paragraphs of word/document.xml, in order
NonBlankKinds ==
  LET RECURSIVE Kinds(_)
      Kinds(p) ==
        IF p > Len(documentXml) THEN <<>>
        ELSE (IF documentXml[p].kind = "empty" THEN <<>> ELSE <<documentXml[p].kind>>)
               \o Kinds(p + 1)
  IN  Kinds(1)

\* the relationships of both manifests whose resolved Target is the part
RelationshipsTo(part) ==
  {<<"package", k>> : k \in {q \in DOMAIN relsXml :
       relsXml[q].Type = "image" /\ Resolve(<<>>, relsXml[q].Target) = part}}
    \cup {<<"document", k>> : k \in {q \in DOMAIN documentRelsXml :
       documentRelsXml[q].Type = "image"
         /\ Resolve(Path1("word"), documentRelsXml[q].Target) = part}}

\* the drawings of word/document.xml that embed rId{n}
DrawingsOf(n) ==
  {p \in DOMAIN documentXml : documentXml[p].kind = "drawing" /\ documentXml[p].num = n}

\* C12: for the text "paragraph, blank line, tag on its own line, blank line,
\* paragraph" and no source image, processImageContent resolves with the tag
\* replaced in place and exactly one asset, img_1; the document built from it
\* has a text paragraph, a drawing paragraph and a text paragraph in that
\* order, and in the built package word/media/image1.png exists, is the
\* resolved target of exactly one relationship and is embedded by exactly one
\* drawing.
C12_EndToEndScenario ==
  (content = ScenarioText /\ ~hasOriginal) =>
    /\ picPc # "rejected"
    /\ picPc = "resolved" =>
         /\ processedContent = <<"a", Newline, Newline>> \o Marker(1) \o <<Newline, Newline, "b">>
         /\ Len(images) = 1
         /\ images[1].id = ImageId(1)
    /\ documentXml # <<>> =>
         /\ NonBlankKinds = <<"text", "drawing", "text">>
         /\ documentXml[1].text = <<"a">>
         /\ documentXml[Len(documentXml)].text = <<"b">>
         /\ Cardinality(DrawingsOf(NumeralOf(1))) = 1
         /\ DrawingNumerals = {NumeralOf(1)}
    /\ genPc = "done" =>
         /\ MediaPart(images[1]) = Path2("word", "media") \o <<MediaFile(NumeralOf(1))>>
         /\ MediaPart(images[1]) \in zipFiles
         /\ MediaNumerals = {NumeralOf(1)}
         /\ Cardinality(RelationshipsTo(MediaPart(images[1]))) = 1

\* C12 witness: the scenario text was exported without a source image and the
\* package was built and saved.
C12_Witness ==
  /\ content = ScenarioText
  /\ ~hasOriginal
  /\ picPc = "resolved"
  /\ genPc = "done"
  /\ saved = <<"docx">>

\* C13: a text with zero tags, once exported as a .docx, is a package with
\* no part under word/media and with no Relationship in
\* word/_rels/document.xml.rels, whether the no-tag branch of downloadAsWord
\* built it or generateWordWithImages was called with an empty image list
\* (the text holds the opening literal of a tag but no complete tag).
C13_EmptyDocument ==
  (saved = <<"docx">> /\ matchAll(content) = <<>>) =>
    /\ images = <<>>
    /\ MediaNumerals = {}
    /\ zipFiles = FixedParts
    /\ documentRelsXml = <<>>
    /\ ImageTargets(relsXml) = {}
    /\ Includes(content, CropOpen) => genPc = "done" /\ genImages = <<>>
    /\ ~Includes(content, CropOpen) => genPc = "idle"

\* C13 witness: generateWordWithImages built the package of a text without a
\* complete tag from an empty image list.
C13_Witness ==
  /\ matchAll(content) = <<>>
  /\ Includes(content, CropOpen)
  /\ saved = <<"docx">>
  /\ genPc = "done"
  /\ genImages = <<>>
  /\ documentXml # <<>>

\* a text with every tag occurrence, from `start` on, replaced where it
\* stands by the marker of its rank (the first of them has rank i), and
\* everything else copied
RECURSIVE RewrittenInPlace(_, _, _)
RewrittenInPlace(s, start, i) ==
  LET m == MatchFrom(s, CropOpen, start)
  IN  IF m.from = 0 THEN SubSeq(s, start, Len(s))
      ELSE SubSeq(s, start, m.from - 1) \o Marker(i) \o RewrittenInPlace(s, m.to + 1, i + 1)

\* C14: the text processImageContent returns is the input text with the
\* i-th tag occurrence, in left-to-right order, replaced at its own position
\* by [IMAGE_PLACEHOLDER:img_i] and every character outside the tag
\* occurrences unchanged, also when tags have identical descriptions or a
\* description repeats text that stands elsewhere.
C14_ExactOccurrenceReplacement ==
  picPc = "resolved" => processedContent = RewrittenInPlace(content, 1, 1)

\* C14 witness: two tags with the same description, each on its own line,
\* were rewritten.
C14_Witness ==
  /\ picPc = "resolved"
  /\ content = Tagged(SameDescriptions(2), <<Newline>>)
  /\ processedContent = <<Newline>> \o Marker(1) \o <<Newline>> \o Marker(2) \o <<Newline>>

(***************************************************************************)
(* Two invocations of processImageContent whose steps interleave.  Each    *)
(* invocation has its own arguments and locals (imageTags, images, the     *)
(* loop index, processedContent); every await of its loop is one step.     *)
(***************************************************************************)
Call(text, original) ==
  [content |-> text, hasOriginal |-> original, pc |-> "idle", imageTags |-> <<>>,
   images |-> <<>>, processedContent |-> <<>>]

\* the texts of the first and of the second invocation: never the same text
FirstDocuments ==
  UNION {{Tagged(SameDescriptions(k), <<>>), Tagged(SameDescriptions(k), <<Newline>>)} :
           k \in 0..MaxImages}
SecondDocuments ==
  UNION {{Tagged(AlternatingDescriptions(k), <<"a">>),
          Tagged(AlternatingDescriptions(k), <<CropOpen>>)} : k \in 0..MaxImages}

InitReentrant ==
  /\ SideIdle
  /\ CropIdle
  /\ GenIdle
  /\ DownloadIdle
  /\ \E first \in FirstDocuments, second \in SecondDocuments, o1, o2 \in BOOLEAN :
       calls = <<Call(first, o1), Call(second, o2)>>

\* the loops are over: the text is rewritten and the promise resolves
Returned(call) ==
  [call EXCEPT !.pc = "resolved",
               !.processedContent = ReplaceTags(call.content, call.imageTags, 1)]

\* const imageId = `img_${i + 1}` of the iteration invocation c is in
NextIdAcrossCalls(c) ==
  ImageId(Len(calls[1].images) + Len(calls[2].images) + 1)

NextId(c) == ImageId(Len(calls[c].images) + 1)

\* processImageContent is called: it runs up to its first await, or to its
\* return when the text has no tag.
CallInvoked(c) ==
  /\ calls[c].pc = "idle"
  /\ LET started == [calls[c] EXCEPT !.imageTags = matchAll(calls[c].content),
                                     !.pc = "loop"]
     IN  calls' = [calls EXCEPT ![c] = IF started.imageTags = <<>> THEN Returned(started)
                                       ELSE started]
  /\ UNCHANGED <<cropVars, genVars, dlVars, picVars, sideVars>>

\* The await of an iteration ends with an asset: the crop or the placeholder
\* createCroppedImage resolved with, the placeholder of a catch, or the empty
\* blob of the catch of the branch without a source image.
CallAssetPushed(c) ==
  /\ calls[c].pc = "loop"
  /\ \E blob \in IF calls[c].hasOriginal THEN {"crop", "placeholder"}
                                          ELSE {"placeholder", "empty"} :
       LET i == Len(calls[c].images) + 1
           pushed == [calls[c] EXCEPT !.images =
                        Append(@, Asset(NextId(c), blob, calls[c].imageTags[i].description))]
       IN  calls' = [calls EXCEPT ![c] = IF i = Len(calls[c].imageTags) THEN Returned(pushed)
                                         ELSE pushed]
  /\ UNCHANGED <<cropVars, genVars, dlVars, picVars, sideVars>>

\* createPlaceholderImage, awaited in the catch of the source-image branch,
\* rejects: so does the invocation.
CallRejected(c) ==
  /\ calls[c].pc = "loop"
  /\ calls[c].hasOriginal
  /\ calls' = [calls EXCEPT ![c].pc = "rejected"]
  /\ UNCHANGED <<cropVars, genVars, dlVars, picVars, sideVars>>

NextReentrant ==
  \/ \E c \in DOMAIN calls : CallInvoked(c)
  \/ \E c \in DOMAIN calls : CallAssetPushed(c)
  \/ \E c \in DOMAIN calls : CallRejected(c)

SpecReentrant == InitReentrant /\ [][NextReentrant]_vars

\* C15: of two invocations of processImageContent for two different texts
\* whose steps interleave at any await, each keeps its own arguments, its
\* assets so far are img_1, img_2, ... with the descriptions of its own tags,
\* and when it resolves it returns the rewriting of its own text and one
\* asset per tag of its own text, as it would alone.
C15_Reentrancy ==
  \A c \in DOMAIN calls :
    LET call == calls[c]
        tags == matchAll(call.content)
    IN  /\ call.pc # "idle" => call.imageTags = tags
        /\ Len(call.images) <= Len(tags)
        /\ \A i \in DOMAIN call.images :
             /\ call.images[i].id = ImageId(i)
             /\ call.images[i].description = tags[i].description
        /\ call.pc = "resolved" =>
             /\ Len(call.images) = Len(tags)
             /\ call.processedContent = RewrittenInPlace(call.content, 1, 1)

\* C15 witness: the first invocation is suspended in its second iteration
\* while the second one, started meanwhile, has pushed two assets and resolved.
C15_Witness ==
  /\ Len(calls) = 2
  /\ calls[1].pc = "loop"
  /\ Len(calls[1].images) = 1
  /\ calls[2].pc = "resolved"
  /\ Len(calls[2].images) = 2
  /\ calls[1].content # calls[2].content

(***************************************************************************)
(* intelligentCropDetection: fallbacks, placement priorities, pixel grid   *)
(***************************************************************************)
\* the template and the placement of the estimator of the descriptor's type
TypeTemplate == HeuristicRegion(parsedInfo.elementType, WU, HU, parsedInfo.position)

\* C16 (as claimed): when the vision runtime is not loaded or its readiness
\* wait exceeds the deadline, intelligentCropDetection returns, after the
\* clamp, the rectangle of the estimator of the descriptor's own element type
\* (chart 0.6 x 0.4, icon 0.15 of the smaller dimension, table 0.7 x 0.3,
\* handwritten 0.4 x 0.2, picture and unknown 0.5 x 0.5) at that type's
\* placement.
C16_VisionUnavailableFallback ==
  (cropStage = "done" /\ failure \in {"not loaded", "timeout"}) =>
    /\ rawRect = TypeTemplate
    /\ cropParams = ClampRect(TypeTemplate, WU, HU)

\* the descriptor names exactly this one of the two edges of an axis
OnlyEdge(edge, opposite) ==
  edge \in parsedInfo.position /\ opposite \notin parsedInfo.position

Estimated == cropStage = "done" /\ rawSource \in {"heuristic", "position"}

\* C17 (as claimed): in every estimator, when the descriptor sets center
\* together with an explicit horizontal edge, x is the value of the edge
\* (0 for left, imgW - width for right), and when it sets center together with
\* an explicit vertical edge, y is the value of the edge (0 for top,
\* imgH - height for bottom).
C17_EdgeBeatsCenter ==
  (Estimated /\ "center" \in parsedInfo.position) =>
    /\ OnlyEdge("left", "right") => rawRect.x = 0
    /\ OnlyEdge("right", "left") => rawRect.x = WU - rawRect.width
    /\ OnlyEdge("top", "bottom") => rawRect.y = 0
    /\ OnlyEdge("bottom", "top") => rawRect.y = HU - rawRect.height

\* C18 (as claimed): in every estimator, when the descriptor sets center and
\* no edge of an axis, the rectangle is centered on that axis:
\* x = (imgW - width) / 2, y = (imgH - height) / 2.
C18_CenterBeatsTypeDefault ==
  (Estimated /\ "center" \in parsedInfo.position) =>
    /\ parsedInfo.position \cap {"left", "right"} = {} =>
         rawRect.x = Frac(WU - rawRect.width, 1, 2)
    /\ parsedInfo.position \cap {"top", "bottom"} = {} =>
         rawRect.y = Frac(HU - rawRect.height, 1, 2)

\* C19: when a step of a typed detector throws, before or inside the
\* detector's own try block, intelligentCropDetection does not reject: it
\* returns the clamp of a rectangle an estimator computed (the estimator by
\* position for an early exception, the one of the type otherwise), and that
\* rectangle lies inside the image.
C19_NoExceptionEscapes ==
  /\ cropStage \in {"idle", "parsed", "done"}
  /\ (cropStage = "done" /\ failure \in {"setup", "pipeline"}) =>
       /\ rawRect = IF failure = "setup"
                      THEN detectByPosition(WU, HU, parsedInfo.position)
                      ELSE TypeTemplate
       /\ cropParams = ClampRect(rawRect, WU, HU)
       /\ InBounds(cropParams, WU, HU)
       /\ cropParams.width >= 0
       /\ cropParams.height >= 0

\* C19 witness: the chart detector threw before its try block and a
\* rectangle of half the image was returned.
C19_Witness ==
  /\ cropStage = "done"
  /\ failure = "setup"
  /\ parsedInfo.elementType = "chart"
  /\ cropParams.width = Frac(WU, 5, 10)
  /\ cropParams.width > 0

\* a length in units that is a whole number of pixels
IsInteger(v) == v % Unit = 0

\* C20 (as claimed): the rectangle intelligentCropDetection hands to the
\* canvas has integer x, y, width and height, for every image size and
\* descriptor, whichever detector or estimator produced it.
C20_IntegerRect ==
  cropStage = "done" =>
    /\ IsInteger(cropParams.x)
    /\ IsInteger(cropParams.y)
    /\ IsInteger(cropParams.width)
    /\ IsInteger(cropParams.height)

(***************************************************************************)
(* The asset list during one processImageContent call                      *)
(***************************************************************************)
\* the asset list is img_1 .. img_j, and no work was started for a tag
\* beyond j + 1
SequentialAssetList ==
  /\ Len(images) <= Len(imageTags)
  /\ \A i \in DOMAIN images :
       /\ images[i].id = ImageId(i)
       /\ images[i].description = imageTags[i].description
  /\ \A i \in DOMAIN cropPc :
       (cropPc[i] # "idle" \/ timers[<<"crop", i>>] # Off \/ timers[<<"race", i>>] # Off
          \/ timers[<<"placeholder", i>>] # Off) => i <= Len(images) + 1

\* a step leaves the list alone or appends the asset of the next tag
GrowsByOne ==
  \/ images' = images
  \/ /\ Len(images') = Len(images) + 1
     /\ SubSeq(images', 1, Len(images)) = images
     /\ images'[Len(images')].id = ImageId(Len(images) + 1)
     /\ images'[Len(images')].blob \in {"crop", "placeholder", "empty"}

\* C21: throughout one processImageContent call the asset list is
\* img_1 .. img_j with j <= k; every step leaves it unchanged or appends the
\* asset of tag j + 1 (a crop, a placeholder or an empty blob), so it never
\* shrinks or reorders; and work on a tag starts only after the assets of all
\* tags before it were appended.
C21_AssetListGrowth == [](SequentialAssetList) /\ [][GrowsByOne]_vars

\* C21 witness: with a source image, the first tag got a placeholder, the
\* second an empty blob, and the call resolved.
C21_Witness ==
  /\ hasOriginal
  /\ Len(images) = 2
  /\ images[1].blob = "placeholder"
  /\ images[2].blob = "empty"
  /\ picPc = "resolved"

(***************************************************************************)
(* The body of word/document.xml, line by line                             *)
(***************************************************************************)
\* the positions of the newlines of a text, and its p-th line
NewlinesOf(s) == {i \in DOMAIN s : s[i] = Newline}
LineOf(s, p) ==
  LET Nth(k) == CHOOSE i \in NewlinesOf(s) : Cardinality({j \in NewlinesOf(s) : j <= i}) = k
      from == IF p = 1 THEN 1 ELSE Nth(p - 1) + 1
      to == IF p = Cardinality(NewlinesOf(s)) + 1 THEN Len(s) ELSE Nth(p) - 1
  IN  SubSeq(s, from, to)

\* the markers [IMAGE_PLACEHOLDER:img_n] a line holds, and the leftmost one
MarkersOn(line) == {n \in DOMAIN Numerals : IndexOfSeq(line, Marker(n), 1) # 0}
LeftmostMarker(line) ==
  CHOOSE n \in MarkersOn(line) :
    \A m \in MarkersOn(line) : IndexOfSeq(line, Marker(n), 1) <= IndexOfSeq(line, Marker(m), 1)

\* the paragraph element a line is to become
ParagraphOf(line) ==
  IF \A i \in DOMAIN line : line[i] = Space THEN Element("empty", <<>>, <<>>)
  ELSE IF MarkersOn(line) # {}
    THEN Element("drawing", NumeralOf(LeftmostMarker(line)), <<>>)
  ELSE Element("text", <<>>, EscapedOnce(line))

\* C22: the body of word/document.xml holds exactly one paragraph element
\* per line of the text, in the order of the lines: an empty paragraph for a
\* blank line, a drawing with r:embed rIdN and object ids N for a line that
\* holds a marker [IMAGE_PLACEHOLDER:img_N], one escaped text run for any
\* other line.
C22_ParagraphMapping ==
  documentXml # <<>> =>
    /\ Len(documentXml) = Cardinality(NewlinesOf(genContent)) + 1
    /\ \A p \in DOMAIN documentXml : documentXml[p] = ParagraphOf(LineOf(genContent, p))

\* C22 witness: a text line and a marker line were written as a text run
\* and a drawing.
C22_Witness ==
  /\ genContent = <<"<", Newline>> \o Marker(2)
  /\ documentXml = <<Element("text", <<>>, EntityOf("<")),
                     Element("drawing", NumeralOf(2), <<>>)>>

(***************************************************************************)
(* Descriptions and descriptors                                            *)
(***************************************************************************)
\* the keyword groups of the element types
TypeGroups ==
  [chart |-> {"chart", "graph"}, icon |-> {"icon", "symbol"}, picture |-> {"picture", "photo"},
   table |-> {"table"}, handwritten |-> {"handwritten", "note"}]

\* the groups of which the description, whatever its case, contains a keyword
GroupsPresent ==
  {g \in DOMAIN TypeGroups :
     \E i \in DOMAIN cropDescription : ToLowerCase(cropDescription[i]) \in TypeGroups[g]}

\* C23 (as claimed): parseVisualElementDescription maps every description,
\* whatever its case, to the type of a keyword group it contains, to unknown
\* when it contains none, and to picture whenever it contains 'picture' or
\* 'photo'.
C23_TypeClassification ==
  cropStage # "idle" =>
    /\ GroupsPresent = {} => parsedInfo.elementType = "unknown"
    /\ GroupsPresent # {} => parsedInfo.elementType \in GroupsPresent
    /\ "picture" \in GroupsPresent => parsedInfo.elementType = "picture"

\* the description without its size words, and the descriptor of that text
IsNoSizeWord(word) == ToLowerCase(word) \notin SizeWords
Unhinted == parseVisualElementDescription(SelectSeq(cropDescription, IsNoSizeWord))

\* C28: for a fixed image, the rectangle intelligentCropDetection returns for
\* a description is the one it returns, on the same path, for the description
\* without its size words: two descriptions with the same element type and
\* position flags and different size hints get the same rectangle from the
\* estimators and from the detection as a whole.
C28_SizeHintNonInterference ==
  cropStage = "done" =>
    /\ Unhinted.sizeHint = "none"
    /\ Unhinted.elementType = parsedInfo.elementType
    /\ Unhinted.position = parsedInfo.position
    /\ rawSource = "heuristic" =>
         cropParams = ClampRect(HeuristicRegion(Unhinted.elementType, WU, HU,
                                                Unhinted.position), WU, HU)
    /\ rawSource = "position" =>
         cropParams = ClampRect(detectByPosition(WU, HU, Unhinted.position), WU, HU)
    /\ rawSource = "cv" =>
         \E best \in BoundingRects(imgWidth, imgHeight) :
           /\ IsCandidate(Unhinted.elementType, best, WU, HU)
           /\ cropParams = ClampRect(AdjustPosition(best, WU, HU, Unhinted.position), WU, HU)

\* C28 witness: a description with a type word and the size word 'small' got
\* the rectangle of the estimator of its type.
C28_Witness ==
  /\ cropStage = "done"
  /\ cropDescription = <<"small", "chart">>
  /\ parsedInfo.sizeHint = "small"
  /\ rawSource = "heuristic"
  /\ cropParams = detectChartRegion(WU, HU, {})

\* --------------------------------------------------------------------------
\* detectHandwrittenRegionWithCV: the clustering pass over the stroke regions
\* --------------------------------------------------------------------------

\* The pass is given up to MaxRegions regions.
MaxRegions == 3

\* The bounding rectangles of the contours: one or two pixels wide, one pixel
\* high, in the top row of a canvas of StrokeDim x StrokeDim pixels.
ContourRects ==
  {Rect(x * Unit, 0, w * Unit, Unit) : x \in 0..(StrokeDim - 1), w \in 1..2}

\* rect.width < canvas.width * 0.1 && rect.height < canvas.height * 0.1
IsStroke(rect) ==
  /\ rect.width * 10 < StrokeDim * Unit
  /\ rect.height * 10 < StrokeDim * Unit

StrokeRects == {rect \in ContourRects : IsStroke(rect)}

\* twice the center of a rectangle:  2 * (x + width / 2)
CenterX2(r) == 2 * r.x + r.width
CenterY2(r) == 2 * r.y + r.height

\* the square of twice the distance of the two centers
Distance2Sq(a, b) ==
  (CenterX2(a) - CenterX2(b)) * (CenterX2(a) - CenterX2(b))
    + (CenterY2(a) - CenterY2(b)) * (CenterY2(a) - CenterY2(b))

\* distance < Math.max(region.width, region.height) * 3, both sides doubled
\* and squared
CloseToCluster(region, cluster) ==
  Distance2Sq(region, cluster)
    < (2 * 3 * Max(region.width, region.height)) * (2 * 3 * Max(region.width, region.height))

\* the cluster's bounding box grown to include the region
Expanded(cluster, region) ==
  LET newX == Min(cluster.x, region.x)
      newY == Min(cluster.y, region.y)
  IN  Rect(newX, newY,
           Max(cluster.x + cluster.width, region.x + region.width) - newX,
           Max(cluster.y + cluster.height, region.y + region.height) - newY)

InitCluster ==
  /\ CropIdle
  /\ GenIdle
  /\ DownloadIdle
  /\ NoCalls
  /\ \E n \in 0..MaxRegions : regions \in [1..n -> StrokeRects]
  /\ clusters = <<>>
  /\ clusterOf = <<>>
  /\ CaptionIdle
  /\ DropIdle

\* One turn of the loop over the regions: the region joins the first cluster
\* it is close to, or starts a cluster of its own.
RegionClustered ==
  /\ Len(clusterOf) < Len(regions)
  /\ LET region == regions[Len(clusterOf) + 1]
         near == {c \in DOMAIN clusters : CloseToCluster(region, clusters[c])}
     IN  IF near # {}
         THEN LET c == CHOOSE first \in near : \A other \in near : first <= other
              IN  /\ clusters' = [clusters EXCEPT ![c] = Expanded(@, region)]
                  /\ clusterOf' = Append(clusterOf, c)
         ELSE /\ clusters' = Append(clusters, region)
              /\ clusterOf' = Append(clusterOf, Len(clusters) + 1)
  /\ UNCHANGED regions
  /\ UNCHANGED <<cropVars, genVars, dlVars, picVars, calls, captionVars, dropVars>>

NextCluster == RegionClustered

SpecCluster == InitCluster /\ [][NextCluster]_vars

\* the maximum dimension of the larger of two regions
LargerMaxDimension(a, b) ==
  Max(Max(a.width, a.height), Max(b.width, b.height))

\* the centers of two regions lie within 3 times the larger region's maximum
\* dimension
ClosePair(a, b) ==
  Distance2Sq(a, b)
    < (2 * 3 * LargerMaxDimension(a, b)) * (2 * 3 * LargerMaxDimension(a, b))

\* C24: once the clustering pass has handled every region, any two regions
\* whose centers lie within 3 times the larger region's maximum dimension
\* are in the same cluster.
C24_ClosePairsMerged ==
  Len(clusterOf) = Len(regions) =>
    \A i, j \in DOMAIN regions :
      ClosePair(regions[i], regions[j]) => clusterOf[i] = clusterOf[j]

\* no two Relationship entries of a manifest share an Id
UniqueIds(rels) == \A i, j \in DOMAIN rels : rels[i].Id = rels[j].Id => i = j

\* C25: in every package built by generateWordWithImages from an asset list
\* img_1..img_k with k >= 1, no two Relationship entries of _rels/.rels share
\* an Id and no two entries of word/_rels/document.xml.rels share an Id.
C25_RelationshipIdsUnique ==
  (genImages # <<>> /\ relsXml # <<>>) =>
    /\ UniqueIds(relsXml)
    /\ UniqueIds(documentRelsXml)

\* the positions of a line that lie outside every marker [IMAGE_PLACEHOLDER:img_n]
OutsideMarkers(line) ==
  {i \in DOMAIN line :
     \A n \in DOMAIN Numerals : \A from \in DOMAIN line :
       (/\ from + Len(Marker(n)) - 1 <= Len(line)
        /\ SubSeq(line, from, from + Len(Marker(n)) - 1) = Marker(n))
         => ~(from <= i /\ i < from + Len(Marker(n)))}

\* C26: every non-blank piece of text of the rewritten document that lies
\* outside the placeholder markers appears, escaped, in a text run of
\* word/document.xml, text that shares its line with a marker included.
C26_NoTextLost ==
  documentXml # <<>> =>
    \A p \in DOMAIN documentXml :
      \A i \in OutsideMarkers(LineOf(genContent, p)) :
        LineOf(genContent, p)[i] # Space =>
          /\ documentXml[p].kind = "text"
          /\ IndexOfSeq(documentXml[p].text, EntityOf(LineOf(genContent, p)[i]), 1) # 0

(***************************************************************************)
(* The losing branch of a race of processImageContent                      *)
(***************************************************************************)
\* the race of tag i is over: its asset is pushed, or its catch is running
RaceSettled(i) == i <= Len(images) \/ (picPc = "fallback" /\ Len(images) + 1 = i)

\* a deadline of tag i (the timer of createCroppedImage, of the crop race or
\* of the placeholder race) fires in this step
DeadlineFires(i) ==
  \E kind \in {"crop", "race", "placeholder"} :
    timers[<<kind, i>>] = 0 /\ timers'[<<kind, i>>] = Off

\* the promise of createCroppedImage for tag i settles in this step
CropFinishes(i) == cropPc[i] \notin {"idle", "finished"} /\ cropPc'[i] = "finished"

\* C27: once the race of a tag has settled, a late settlement of its losing
\* branch (the crop finishing after the deadline fired, or a deadline firing
\* after the crop or the placeholder settled) leaves the asset list and the
\* rewritten text as they are and does not make processImageContent reject.
C27_LoserHasNoEffect ==
  [][\A i \in DOMAIN cropPc :
       (RaceSettled(i) /\ (DeadlineFires(i) \/ CropFinishes(i)))
         => UNCHANGED <<images, processedContent, picPc>>]_vars

\* C27 witness: the deadline of a tag fired while its crop was encoding, and
\* the crop has finished since, while the catch still awaits the placeholder.
C27_Witness ==
  /\ picPc = "fallback"
  /\ timedOut.stage = "encoding"
  /\ cropPc[timedOut.tag] = "finished"

\* --------------------------------------------------------------------------
\* createPlaceholderImage: the caption is wrapped word by word and drawn
\* --------------------------------------------------------------------------

\* The description has up to MaxCaptionWords words.
MaxCaptionWords == 17

PlaceholderSize == 300   \* const size = 300
LineHeight == 20         \* const lineHeight = 20
TextMargin == 40         \* width < size - 40

\* ctx.measureText in 16px Arial, in whole pixels: a space, and the words of
\* a description (an empty word, as two spaces in a row give, a word of
\* which two fit on a line, and a word as wide as the line).
SpaceWidth == 4
WordWidths == {0, 100, PlaceholderSize - TextMargin}

InitCaption ==
  /\ CropIdle
  /\ GenIdle
  /\ DownloadIdle
  /\ NoCalls
  /\ ClusterIdle
  /\ CaptionIdle
  /\ DropIdle

\* canvas.getContext('2d') gives null: an empty blob is returned
PlaceholderNoContext ==
  /\ captionPc = "idle"
  /\ captionPc' = "empty"
  /\ UNCHANGED <<wordsRead, currentWidth, lineCount, lineYs>>
  /\ UNCHANGED <<cropVars, genVars, dlVars, picVars, calls, clusterVars, dropVars>>

\* the background and the border are drawn; currentLine = words[0]
FirstWordTaken ==
  /\ captionPc = "idle"
  /\ captionPc' = "wrapping"
  /\ wordsRead' = 1
  /\ currentWidth' \in WordWidths
  /\ UNCHANGED <<lineCount, lineYs>>
  /\ UNCHANGED <<cropVars, genVars, dlVars, picVars, calls, clusterVars, dropVars>>

\* one turn of the loop over words[1..]: the word is appended to currentLine
\* if the two, with a space, measure less than size - 40; else currentLine is
\* pushed and the word starts the next line
WordWrapped ==
  /\ captionPc = "wrapping"
  /\ wordsRead < MaxCaptionWords
  /\ \E word \in WordWidths :
       LET width == currentWidth + SpaceWidth + word
       IN  IF width < PlaceholderSize - TextMargin
             THEN /\ currentWidth' = width
                  /\ UNCHANGED lineCount
             ELSE /\ lineCount' = lineCount + 1
                  /\ currentWidth' = word
  /\ wordsRead' = wordsRead + 1
  /\ UNCHANGED <<captionPc, lineYs>>
  /\ UNCHANGED <<cropVars, genVars, dlVars, picVars, calls, clusterVars, dropVars>>

\* the description has no further word: currentLine is pushed and every line
\* is drawn at startY + i * lineHeight; canvas.toBlob is called
CaptionDrawn ==
  /\ captionPc = "wrapping"
  /\ LET n == lineCount + 1
         startY == (PlaceholderSize - (n - 1) * LineHeight) \div 2
     IN  /\ lineCount' = n
         /\ lineYs' = [i \in 1..n |-> startY + (i - 1) * LineHeight]
  /\ captionPc' = "drawn"
  /\ UNCHANGED <<wordsRead, currentWidth>>
  /\ UNCHANGED <<cropVars, genVars, dlVars, picVars, calls, clusterVars, dropVars>>

\* the callback of canvas.toBlob: the blob, or an empty blob for null
CaptionEncoded ==
  /\ captionPc = "drawn"
  /\ captionPc' \in {"placeholder", "empty"}
  /\ UNCHANGED <<wordsRead, currentWidth, lineCount, lineYs>>
  /\ UNCHANGED <<cropVars, genVars, dlVars, picVars, calls, clusterVars, dropVars>>

NextCaption ==
  \/ PlaceholderNoContext
  \/ FirstWordTaken
  \/ WordWrapped
  \/ CaptionDrawn
  \/ CaptionEncoded

SpecCaption == InitCaption /\ [][NextCaption]_vars

\* C29: for every description, every line of the caption is drawn at a
\* position startY + i*20 that lies within the 300-pixel canvas height.
C29_CaptionOnCanvas ==
  \A i \in DOMAIN lineYs : 0 <= lineYs[i] /\ lineYs[i] <= PlaceholderSize

\* --------------------------------------------------------------------------
\* UnifiedExtractor.handleFileDrop and the reducer of AppContext
\* --------------------------------------------------------------------------

\* Up to MaxDrops files are dropped; a drop does not wait for the one before.
MaxDrops == 2

\* files[0]: none, or a file that the type chain sends to validatePDF,
\* validateImage or validateWord, or a file of another type
FileKinds == {"none", "pdf", "image", "word", "other"}

\* case 'SET_PROCESSING_STATE': { ...state.processingState, ...action.payload }
SetProcessingState(state, payload) ==
  [f \in DOMAIN state |-> IF f \in DOMAIN payload THEN payload[f] ELSE state[f]]

\* the state after a run of setProcessingState calls
RECURSIVE Dispatched(_, _)
Dispatched(state, payloads) ==
  IF payloads = <<>> THEN state
  ELSE Dispatched(SetProcessingState(state, Head(payloads)), Tail(payloads))

\* case 'ADD_EXTRACTED_CONTENT': [action.payload, ...state.extractedContents]
AddExtractedContent(contents, item) == <<item>> \o contents

\* lines 55-60 and 63-67
StartPayloads ==
  << [isProcessing |-> TRUE, progress |-> 0, currentStep |-> "Analyzing", error |-> "null"],
     [isProcessing |-> TRUE, progress |-> 25, currentStep |-> "Extracting text content"] >>

\* lines 93-97
ProcessingPayload ==
  [isProcessing |-> TRUE, progress |-> 75, currentStep |-> "Processing extracted text"]

\* lines 103-107 and 122-127
SuccessPayloads ==
  << [isProcessing |-> TRUE, progress |-> 100, currentStep |-> "Finalizing"],
     [isProcessing |-> FALSE, progress |-> 0, currentStep |-> "", error |-> "null"] >>

\* a catch that reports the error and leaves the rest of the state as it is
CatchKeepsProcessing(errorMessage) == [error |-> errorMessage]

\* lines 131-136
CatchPayload(errorMessage) ==
  [isProcessing |-> FALSE, progress |-> 0, currentStep |-> "", error |-> errorMessage]

\* the method the try block chooses for the file
MethodOf(kind) ==
  CASE kind = "pdf" -> "direct"
    [] kind = "image" -> "ocr"
    [] kind = "word" -> "word"

Drop(kind, pc, outcome, payloads) ==
  [kind |-> kind, pc |-> pc, outcome |-> outcome, payloads |-> payloads]

InitDrop ==
  /\ CropIdle
  /\ GenIdle
  /\ DownloadIdle
  /\ NoCalls
  /\ ClusterIdle
  /\ CaptionIdle
  /\ DropIdle

\* handleFileDrop up to its await: no file, an unsupported type or an invalid
\* file end the call; else processing starts and the extraction is awaited.
FileDropped ==
  /\ Len(drops) < MaxDrops
  /\ \E kind \in FileKinds, isValid \in BOOLEAN :
       IF kind = "none"
         THEN /\ drops' = Append(drops, Drop(kind, "returned", "none", <<>>))
              /\ UNCHANGED <<processingState, dropError>>
       ELSE IF kind = "other"
         THEN /\ drops' = Append(drops, Drop(kind, "returned", "none", <<>>))
              /\ dropError' = "Unsupported file type"
              /\ UNCHANGED processingState
       ELSE IF ~isValid
         THEN /\ drops' = Append(drops, Drop(kind, "returned", "none", <<>>))
              /\ dropError' = "Invalid file"
              /\ UNCHANGED processingState
       ELSE /\ drops' = Append(drops, Drop(kind, "extracting", "none", StartPayloads))
            /\ dropError' = "null"
            /\ processingState' = Dispatched(processingState, StartPayloads)
  /\ UNCHANGED extractedContents
  /\ UNCHANGED <<cropVars, genVars, dlVars, picVars, calls, clusterVars, captionVars>>

\* The awaited extraction settles and handleFileDrop runs to its end: the
\* result is a success, the result reports a failure, or the promise rejected.
ExtractionSettles(k) ==
  /\ k \in DOMAIN drops
  /\ drops[k].pc = "extracting"
  /\ \E outcome \in {"success", "failure", "thrown"} :
       LET payloads ==
             CASE outcome = "success" -> <<ProcessingPayload>> \o SuccessPayloads
               [] outcome = "failure" -> <<ProcessingPayload, CatchPayload("result.error")>>
               [] outcome = "thrown" -> <<CatchPayload("err.message")>>
       IN  /\ drops' = [drops EXCEPT ![k] =
                          Drop(@.kind, "finished", outcome, @.payloads \o payloads)]
           /\ processingState' = Dispatched(processingState, payloads)
           /\ extractedContents' =
                IF outcome = "success"
                  THEN AddExtractedContent(extractedContents,
                                           [call |-> k, method |-> MethodOf(drops[k].kind)])
                  ELSE extractedContents
           /\ dropError' = CASE outcome = "success" -> dropError
                             [] outcome = "failure" -> "result.error"
                             [] outcome = "thrown" -> "err.message"
  /\ UNCHANGED <<cropVars, genVars, dlVars, picVars, calls, clusterVars, captionVars>>

NextDrop ==
  \/ FileDropped
  \/ \E k \in 1..MaxDrops : ExtractionSettles(k)

SpecDrop == InitDrop /\ [][NextDrop]_vars

\* Every awaited extraction settles, and the continuation of the await runs.
FairSpecDrop == SpecDrop /\ \A k \in 1..MaxDrops : WF_vars(ExtractionSettles(k))

\* call k has set isProcessing to true
SetProcessing(k) ==
  /\ k \in DOMAIN drops
  /\ \E p \in DOMAIN drops[k].payloads :
       /\ "isProcessing" \in DOMAIN drops[k].payloads[p]
       /\ drops[k].payloads[p].isProcessing

\* the last payload call k has set is isProcessing false with progress 0
SetIdle(k) ==
  /\ k \in DOMAIN drops
  /\ drops[k].payloads # <<>>
  /\ LET last == drops[k].payloads[Len(drops[k].payloads)]
     IN  /\ {"isProcessing", "progress"} \subseteq DOMAIN last
         /\ ~last.isProcessing
         /\ last.progress = 0

\* the calls whose extraction succeeded, the latest first
RECURSIVE Succeeded(_)
Succeeded(k) ==
  IF k = 0 THEN {}
  ELSE Succeeded(k - 1) \cup (IF drops[k].outcome = "success" THEN {k} ELSE {})

\* C30: every handleFileDrop call that sets isProcessing to true eventually
\* sets isProcessing to false with progress 0, whether the extraction
\* succeeds, reports failure or throws; whenever no call is extracting the
\* processing state is idle; and the content list holds one item per call
\* whose extraction succeeded and no other.
C30_ReturnsToIdle ==
  /\ \A k \in 1..MaxDrops : SetProcessing(k) ~> SetIdle(k)
  /\ [](\A k \in DOMAIN drops : drops[k].pc = "finished" => SetIdle(k))
  /\ []((\A k \in DOMAIN drops : drops[k].pc # "extracting") =>
          (~processingState.isProcessing /\ processingState.progress = 0))
  /\ []({extractedContents[c].call : c \in DOMAIN extractedContents} = Succeeded(Len(drops)))
  /\ [](Len(extractedContents) = Cardinality(Succeeded(Len(drops))))

\* C30 witness: of two overlapping calls one succeeded and one threw; one
\* item is in the list and the processing state is idle again.
C30_Witness ==
  /\ Len(drops) = 2
  /\ drops[1].outcome = "thrown"
  /\ drops[2].outcome = "success"
  /\ SetProcessing(1) /\ SetIdle(1)
  /\ SetProcessing(2) /\ SetIdle(2)
  /\ Len(extractedContents) = 1
  /\ ~processingState.isProcessing
  /\ processingState.progress = 0

=============================================================================
